---- MODULE Spec2Model ----
(***************************************************************************)
(* Model of linkcheck/checker/urlbase.py: one UrlBase record, the shared   *)
(* aggregate configuration it reads and appends to, and the transport      *)
(* connection it reads its content from.                                   *)
(*                                                                         *)
(* Python values are encoded as follows.                                   *)
(*   None            the empty tuple <<>>; a present value x is <<x>>      *)
(*   tuple (a, b)    <<a, b>> (self.extern; an unset self.extern is <<>>,  *)
(*                   which is falsy exactly as None is)                    *)
(*   result string   a sequence of tokens, so that prefixing a message     *)
(*                   and searching a message are real string operations    *)
(*   compiled regex  for URLs, the set of URLs the regex is found in; for  *)
(*                   messages, a token searched anywhere or at the start   *)
(*   bytes           the number of bytes                                   *)
(***************************************************************************)
EXTENDS Integers, Sequences, FiniteSets, TLC

VARIABLES
    rec,       \* the UrlBase object's attributes (set by reset)
    config,    \* aggregate.config, shared by all records of the crawl
    downloaded_bytes,  \* the aggregate's crawl-wide downloaded-bytes counter
    pc,        \* "new": not constructed; "live": constructed; "checked": check()
               \* has run; "dead": __init__ raised and no object exists
    op,        \* the last operation called
    raised,    \* the exception that escaped it, None if it returned
    logged,    \* the log.warn records it emitted
    returned,  \* the value it returned, None if it raised or returns nothing
    workers,   \* the records the other workers of the pool are constructing
    wire,      \* the snapshot to_wire has made of the record, None before
    urlqueue   \* aggregate.urlqueue: the child records add_url has put

vars ==
    <<rec, config, downloaded_bytes, pc, op, raised, logged, returned, workers, wire,
      urlqueue>>

----------------------------------------------------------------------------
(* Bounds of the model *)

\* longest extern pattern list of the configuration
MaxExternLinks == 2
\* longest intern pattern list; the configuration starts with a shorter one,
\* which leaves room for a seed's pattern
MaxInternLinks == 2
\* longest ignoreerrors rule list
MaxIgnoreErrors == 2
\* most chunks a transport stream delivers before it ends
MaxChunks == 3
MaxDepth == 2
MaxQueue == 2

----------------------------------------------------------------------------
(* Python values *)

None == <<>>
Some(x) == <<x>>
IsNone(o) == o = <<>>
Get(o) == o[1]

\* Python truthiness of an integer flag (the flags of self.extern are 0 or 1)
Truthy(x) == x # 0

InSeq(x, s) == \E i \in 1..Len(s) : s[i] = x

SeqsUpTo(S, n) == UNION { [1..k -> S] : k \in 0..n }

----------------------------------------------------------------------------
(* URLs and patterns *)

\* the values self.url takes: normalized URLs, and the URL with an unparsable
\* port that build_url stores before build_url_parts rejects it
Urls == {"http://a/", "http://a/#f", "http://b/", "http://a:x/"}

\* regular expressions over URLs, each given by the URLs it is found in
\* (here: the URLs of host a with a valid authority)
UrlPatterns == {{"http://a/", "http://a/#f"}}

\* pattern.search(url): the regex is found in url
Search(pattern, url) == url \in pattern

\* an entry of config["externlinks"] / config["internlinks"]
LinkEntry(pattern, negate, strict) ==
    [pattern |-> pattern, negate |-> negate, strict |-> strict]

\* get_link_pat(pat): a non-negated, non-strict entry
get_link_pat(pattern) == LinkEntry(pattern, FALSE, 0)

ExternEntries ==
    { LinkEntry(p, n, s) : p \in UrlPatterns, n \in BOOLEAN, s \in {0, 1} }

InternEntries == { LinkEntry(p, n, 0) : p \in UrlPatterns, n \in BOOLEAN }

\* the test of lines 708 and 714
EntryMatches(entry, url) ==
    LET match == Search(entry.pattern, url)
    IN  (entry.negate /\ ~match) \/ (match /\ ~entry.negate)

\* index of the first entry of a list that matches, 0 if none does
RECURSIVE FirstMatchFrom(_, _, _)
FirstMatchFrom(entries, url, i) ==
    IF i > Len(entries) THEN 0
    ELSE IF EntryMatches(entries[i], url) THEN i
    ELSE FirstMatchFrom(entries, url, i + 1)

FirstMatch(entries, url) == FirstMatchFrom(entries, url, 1)

----------------------------------------------------------------------------
(* Messages *)

MsgEmpty == <<"URL is empty">>
MsgFiltered == <<"filtered">>
MsgBadDomain == <<"URL has unparsable domain name">>
MsgBadPort == <<"URL host has invalid port">>
MsgNoHost == <<"URL has empty hostname">>
IgnoredPrefix == "Ignored: "

InfoFiltered == <<"The URL is outside of the domain filter, checked only syntax.">>

\* a message regex: the token it looks for, anywhere (search) or anchored at
\* the start of the message ("^token")
MsgPattern(token, anchored) == [token |-> token, anchored |-> anchored]

\* msg_regex.search(result)
MsgSearch(pattern, msg) ==
    IF pattern.anchored
    THEN msg # <<>> /\ Head(msg) = pattern.token
    ELSE InSeq(pattern.token, msg)

\* an entry of config["ignoreerrors"]: (url_regex, msg_regex)
IgnoreRule(url_regex, msg_regex) == <<url_regex, msg_regex>>

----------------------------------------------------------------------------
(* The record: UrlBase.reset and the diagnostics recorder *)

WARN_URL_WHITESPACE == "url-whitespace"
WARN_URL_TOO_LONG == "url-too-long"
WARN_URL_CONTENT_SIZE_ZERO == "url-content-size-zero"
WARN_URL_CONTENT_SIZE_TOO_LARGE == "url-content-too-large"
WARN_URL_ERROR_GETTING_CONTENT == "url-error-getting-content"
WARN_URL_CONTENT_TYPE_UNPARSEABLE == "url-content-type-unparseable"

\* UrlBase.reset, lines 222-278
reset ==
    [ base_url |-> None, parent_url |-> None, recursion_level |-> 0,
      url |-> None, cache_url |-> None,
      result |-> <<>>, has_result |-> FALSE, valid |-> TRUE,
      warnings |-> <<>>, info |-> <<>>,
      size |-> -1, dltime |-> -1, url_connection |-> None,
      data |-> None, text |-> None, soup |-> None,
      extern |-> None, caching |-> TRUE, do_check_content |-> TRUE,
      ignore_errors |-> <<>>, scheme |-> None, content_type |-> "" ]

\* the outcome of a method: the object afterwards, the exception that escaped
\* (None if the method returned) and the log.warn records it emitted
Outcome(self, exc, log) == [self |-> self, exc |-> exc, log |-> log]
Returned(self) == Outcome(self, None, {})

\* UrlBase.add_info, lines 393-398
add_info(self, s) ==
    IF InSeq(s, self.info) THEN self
    ELSE [self EXCEPT !.info = Append(@, s)]

\* add_warning without the ignorewarnings test of line 388
add_warning_NoIgnore(self, cfg, s, tag) ==
    LET item == <<tag, s>>
    IN  IF InSeq(item, self.warnings) THEN self
        ELSE [self EXCEPT !.warnings = Append(@, item)]

\* add_warning without the membership test of line 387
add_warning_NoDedup(self, cfg, s, tag) ==
    LET item == <<tag, s>>
    IN  IF tag \in cfg.ignorewarnings THEN add_info(self, s)
        ELSE [self EXCEPT !.warnings = Append(@, item)]

\* UrlBase.add_warning, lines 382-391
add_warning(self, cfg, s, tag) ==
    LET item == <<tag, s>>
    IN  IF InSeq(item, self.warnings) THEN self
        ELSE IF tag \in cfg.ignorewarnings THEN add_info(self, s)
        ELSE [self EXCEPT !.warnings = Append(@, item)]

\* the loop of lines 300-306 from rule i on: every rule is tried in turn, each
\* against the result as the rules before it left it
RECURSIVE IgnoreLoop(_, _, _)
IgnoreLoop(self, rules, i) ==
    IF i > Len(rules) THEN self
    ELSE IF    Search(rules[i][1], Get(self.url))
            /\ MsgSearch(rules[i][2], self.result)
    THEN IgnoreLoop([self EXCEPT !.valid = TRUE,
                                 !.result = <<IgnoredPrefix>> \o @],
                    rules, i + 1)
    ELSE IgnoreLoop(self, rules, i + 1)

\* set_result keeping the first result when overwrite is not asked for
StoreResult_KeepFirst(self, msg, valid, overwrite) ==
    IF self.has_result /\ ~overwrite THEN self
    ELSE [self EXCEPT !.has_result = TRUE, !.result = msg, !.valid = valid]

\* lines 284-297: the conflict detection and the unconditional store
StoreResult(self, msg, valid, overwrite) ==
    [self EXCEPT !.has_result = IF self.has_result /\ ~overwrite THEN @ ELSE TRUE,
                 !.result = msg,
                 !.valid = valid]

\* the log.warn calls of lines 285 and 295
ResultLog(self, msg, overwrite) ==
    (IF self.has_result /\ ~overwrite THEN {"Double result"} ELSE {})
    \cup (IF msg = <<>> THEN {"Empty result"} ELSE {})

\* set_result without line 309
set_result_KeepData(self, msg, valid, overwrite) ==
    LET stored == StoreResult(self, msg, valid, overwrite)
        log == ResultLog(self, msg, overwrite)
    IN  IF stored.valid \/ stored.ignore_errors = <<>> THEN Outcome(stored, None, log)
        ELSE IF IsNone(stored.url) THEN Outcome(stored, Some("TypeError"), log)
        ELSE Outcome(IgnoreLoop(stored, stored.ignore_errors, 1), None, log)

\* set_result freeing the content data only when it stores a first result
set_result_FreeOnFirst(self, msg, valid, overwrite) ==
    LET stored == StoreResult(self, msg, valid, overwrite)
        log == ResultLog(self, msg, overwrite)
        freed == IF self.has_result THEN self.data ELSE None
    IN  IF stored.valid \/ stored.ignore_errors = <<>>
        THEN Outcome([stored EXCEPT !.data = freed], None, log)
        ELSE IF IsNone(stored.url) THEN Outcome(stored, Some("TypeError"), log)
        ELSE Outcome([IgnoreLoop(stored, stored.ignore_errors, 1) EXCEPT !.data = freed],
                     None, log)

\* UrlBase.set_result, lines 280-309. url_regex.search(self.url) raises
\* TypeError when self.url is None: the call then ends at line 301 with the
\* result stored and the content data not freed.
set_result(self, msg, valid, overwrite) ==
    LET stored == StoreResult(self, msg, valid, overwrite)
        log == ResultLog(self, msg, overwrite)
    IN  IF stored.valid THEN Outcome([stored EXCEPT !.data = None], None, log)
        ELSE IF stored.ignore_errors = <<>>
        THEN Outcome([stored EXCEPT !.data = None], None, log)
        ELSE IF IsNone(stored.url) THEN Outcome(stored, Some("TypeError"), log)
        ELSE Outcome([IgnoreLoop(stored, stored.ignore_errors, 1) EXCEPT !.data = None],
                     None, log)

----------------------------------------------------------------------------
(* The scope classifier *)

\* set_extern scanning the intern list before the extern list
set_extern_InternFirst(self, cfg, url) ==
    IF self.extern # None THEN self
    ELSE IF IsNone(url) \/ url = Some("") THEN [self EXCEPT !.extern = <<1, 1>>]
    ELSE LET e == FirstMatch(cfg.externlinks, Get(url))
             i == FirstMatch(cfg.internlinks, Get(url))
         IN  IF i # 0 THEN [self EXCEPT !.extern = <<0, 0>>]
             ELSE IF e # 0 THEN [self EXCEPT !.extern = <<1, cfg.externlinks[e].strict>>]
             ELSE IF cfg.checkextern THEN [self EXCEPT !.extern = <<1, 0>>]
             ELSE [self EXCEPT !.extern = <<1, 1>>]

\* set_extern with the checkextern toggle read the wrong way round
set_extern_ToggleSwapped(self, cfg, url) ==
    IF self.extern # None THEN self
    ELSE IF IsNone(url) \/ url = Some("") THEN [self EXCEPT !.extern = <<1, 1>>]
    ELSE LET e == FirstMatch(cfg.externlinks, Get(url))
             i == FirstMatch(cfg.internlinks, Get(url))
         IN  IF e # 0 THEN [self EXCEPT !.extern = <<1, cfg.externlinks[e].strict>>]
             ELSE IF i # 0 THEN [self EXCEPT !.extern = <<0, 0>>]
             ELSE IF cfg.checkextern THEN [self EXCEPT !.extern = <<1, 1>>]
             ELSE [self EXCEPT !.extern = <<1, 0>>]

\* set_extern without the early return of lines 701-702
set_extern_Recompute(self, cfg, url) ==
    IF IsNone(url) \/ url = Some("") THEN [self EXCEPT !.extern = <<1, 1>>]
    ELSE LET e == FirstMatch(cfg.externlinks, Get(url))
             i == FirstMatch(cfg.internlinks, Get(url))
         IN  IF e # 0 THEN [self EXCEPT !.extern = <<1, cfg.externlinks[e].strict>>]
             ELSE IF i # 0 THEN [self EXCEPT !.extern = <<0, 0>>]
             ELSE IF cfg.checkextern THEN [self EXCEPT !.extern = <<1, 0>>]
             ELSE [self EXCEPT !.extern = <<1, 1>>]

\* UrlBase.set_extern, lines 693-721; url is None or Some(u). An empty url
\* string is falsy like None.
set_extern(self, cfg, url) ==
    IF self.extern # None THEN self
    ELSE IF IsNone(url) \/ url = Some("") THEN [self EXCEPT !.extern = <<1, 1>>]
    ELSE LET e == FirstMatch(cfg.externlinks, Get(url))
             i == FirstMatch(cfg.internlinks, Get(url))
         IN  IF e # 0 THEN [self EXCEPT !.extern = <<1, cfg.externlinks[e].strict>>]
             ELSE IF i # 0 THEN [self EXCEPT !.extern = <<0, 0>>]
             ELSE IF cfg.checkextern THEN [self EXCEPT !.extern = <<1, 0>>]
             ELSE [self EXCEPT !.extern = <<1, 1>>]

----------------------------------------------------------------------------
(* The URL builder *)

\* references as they are discovered (after strip): empty, absolute URLs that
\* are normalized or not, one with a domain idna cannot encode, one with an
\* unparsable port
Refs == {"", "http://A/", "http://a/#f", "http://b/", "http://a..b/", "http://a:x/"}
RefBadDomain == "http://a..b/"
UrlBadPort == "http://a:x/"

\* a URL with an unparsable port that is longer than URL_MAX_LENGTH
UrlLongBadPort == "http://a:x/long"

\* a URL of a scheme that requires a host, without one (line 504)
UrlNoHost == "http://:80/"

\* a raw reference: the text and whether whitespace surrounds it
RawRef(body, ws) == [body |-> body, ws |-> ws]

\* base_url.strip() if base_url else base_url, line 188: a raw reference is
\* truthy if it has any character
strip(raw) == raw.body

\* urlutil.url_norm on the model's references (lower-cases the host)
url_norm(ref) == IF ref = "http://A/" THEN "http://a/" ELSE ref

\* urlsplit, fragment emptied, urlunsplit (lines 463-465 and 407)
StripFragment(url) == IF url = "http://a/#f" THEN "http://a/" ELSE url

\* urljoin, lines 62-70: the model's non-empty references are absolute, and
\* joining the empty reference yields the parent
urljoin(parent, url) == IF url = "" THEN parent ELSE url

\* const.URL_MAX_LENGTH, imported at line 50
URL_MAX_LENGTH == 2000

\* URLs one character longer than URL_MAX_LENGTH and of exactly that length,
\* and a data URL one character longer
UrlLong == "http://a/long"
UrlEdge == "http://a/edge"
UrlData == "data:long"

\* len(url)
UrlLen(url) ==
    CASE url = UrlLong -> URL_MAX_LENGTH + 1
      [] url = UrlEdge -> URL_MAX_LENGTH
      [] url = UrlData -> URL_MAX_LENGTH + 1
      [] url = UrlLongBadPort -> URL_MAX_LENGTH + 1
      [] url = "" -> 0
      [] url = "http://a/#f" -> 11
      [] url = "http://a..b/" -> 12
      [] url = "http://a:x/" -> 11
      [] url = "http://:80/" -> 11
      [] OTHER -> 9

\* the length test with >= in the place of >
TooLong_AtLimit(url) == UrlLen(url) >= URL_MAX_LENGTH

\* len(self.url) > URL_MAX_LENGTH, line 440
TooLong(url) == UrlLen(url) > URL_MAX_LENGTH

\* absolute_url(base_url, base_ref, parent_url), line 211, base_ref being
\* None: the first of the reference and the parent URL that is absolute, else ""
absolute_url(base_url, parent_url) ==
    IF base_url # None /\ Get(base_url) # "" THEN Get(base_url)
    ELSE IF parent_url # None THEN Get(parent_url)
    ELSE ""

\* url.split(":", 1)[0].lower() or "file", line 213
Scheme(url) ==
    IF url = "" THEN "file" ELSE IF url = UrlData THEN "data" ELSE "http"

\* UrlBase.build_url with build_url_parts, lines 447-520, base_ref being None:
\* the object afterwards and the LinkCheckerError message raised, if any
build_url(self) ==
    IF Get(self.base_url) = RefBadDomain
    THEN [self |-> self, fault |-> Some(MsgBadDomain)]
    ELSE LET base_url == url_norm(Get(self.base_url))
             url == IF self.parent_url # None
                    THEN urljoin(StripFragment(Get(self.parent_url)), base_url)
                    ELSE base_url
             joined == [self EXCEPT !.url = Some(url)]
         IN  IF url \in {UrlBadPort, UrlLongBadPort}
             THEN [self |-> joined, fault |-> Some(MsgBadPort)]
             ELSE IF url = UrlNoHost
             THEN [self |-> joined, fault |-> Some(MsgNoHost)]
             ELSE [self |-> joined, fault |-> None]

\* UrlBase.check_url_warnings, lines 431-445. The effective URL is the
\* urlunsplit of the same urlparts build_url has just serialized into self.url.
check_url_warnings(self, cfg) ==
    LET effectiveurl == Get(self.url)
        eff == IF Get(self.url) # effectiveurl
               THEN [add_warning(self, cfg, <<"Effective URL", effectiveurl>>,
                                 "url-effective-url")
                       EXCEPT !.url = Some(effectiveurl)]
               ELSE self
    IN  IF TooLong(Get(eff.url)) /\ eff.scheme # Some("data")
        THEN add_warning(eff, cfg, <<"URL length is longer than maximum">>,
                         WARN_URL_TOO_LONG)
        ELSE eff

\* set_cache_url keeping the fragment whatever the plugins are
set_cache_url_KeepFragment(self, cfg) == [self EXCEPT !.cache_url = self.url]

\* UrlBase.set_cache_url, lines 400-408
set_cache_url(self, cfg) ==
    IF "AnchorCheck" \in cfg.enabledplugins
    THEN [self EXCEPT !.cache_url = self.url]
    ELSE [self EXCEPT !.cache_url = Some(StripFragment(Get(self.url)))]

\* UrlBase.check_syntax, lines 410-429
check_syntax(self0, cfg) ==
    LET self == IF self0.base_url = None THEN [self0 EXCEPT !.base_url = Some("")]
                ELSE self0
    IN  IF Get(self.base_url) = "" /\ self.parent_url = None
        THEN set_result(self, MsgEmpty, FALSE, FALSE)
        ELSE LET built == build_url(self)
             IN  IF built.fault # None
                 THEN set_result(built.self, Get(built.fault), FALSE, FALSE)
                 ELSE Returned(set_cache_url(check_url_warnings(built.self, cfg), cfg))

\* init without the whitespace warning of lines 214-219
init_NoWhitespaceWarning(self, cfg, raw, parent_url, recursion_level, extern) ==
    [self EXCEPT !.base_url = IF raw = None THEN None ELSE Some(strip(Get(raw))),
                 !.parent_url = parent_url,
                 !.recursion_level = recursion_level,
                 !.extern = extern,
                 !.scheme = Some(Scheme(absolute_url(
                              IF raw = None THEN None ELSE Some(strip(Get(raw))),
                              parent_url))),
                 !.ignore_errors = cfg.ignoreerrors]

\* UrlBase.init, lines 168-220; raw is None or Some(raw reference)
init(self, cfg, raw, parent_url, recursion_level, extern) ==
    LET stored == [self EXCEPT
                     !.base_url = IF raw = None THEN None ELSE Some(strip(Get(raw))),
                     !.parent_url = parent_url,
                     !.recursion_level = recursion_level,
                     !.extern = extern,
                     !.scheme = Some(Scheme(absolute_url(
                                  IF raw = None THEN None ELSE Some(strip(Get(raw))),
                                  parent_url)))]
        warned == IF raw # None /\ Get(raw).ws
                  THEN add_warning(stored, cfg,
                                   <<"Leading or trailing whitespace in URL", Get(raw).body>>,
                                   WARN_URL_WHITESPACE)
                  ELSE stored
    IN  [warned EXCEPT !.ignore_errors = cfg.ignoreerrors]

\* what get_intern_pattern returns or raises (line 852): the base class
\* returns None, the scheme classes a pattern or a UnicodeError
PatternResult(pattern, unicode_error) ==
    [pattern |-> pattern, unicode_error |-> unicode_error]
InternPatternResults ==
    {PatternResult(None, FALSE), PatternResult(None, TRUE)}
    \cup {PatternResult(Some(p), FALSE) : p \in UrlPatterns}

\* UrlBase.add_intern_pattern, lines 849-858: the object's part
add_intern_pattern(self, pat) ==
    IF pat.unicode_error THEN set_result(self, MsgBadDomain, FALSE, FALSE)
    ELSE Returned(self)

\* UrlBase.add_intern_pattern, line 855: the shared list's part
AppendInternPattern(cfg, pat) ==
    IF ~pat.unicode_error /\ pat.pattern # None
    THEN [cfg EXCEPT !.internlinks = Append(@, get_link_pat(Get(pat.pattern)))]
    ELSE cfg

\* lines 160-166 of __init__ without the has_result test of line 165
ClassifyAndFilter_Overwrite(self, cfg) ==
    LET scoped == set_extern(self, cfg, self.url)
    IN  IF Truthy(scoped.extern[1]) /\ Truthy(scoped.extern[2])
        THEN set_result(add_info(scoped, InfoFiltered), MsgFiltered, TRUE, FALSE)
        ELSE Returned(scoped)

\* lines 160-166 of __init__
ClassifyAndFilter(self, cfg) ==
    LET scoped == set_extern(self, cfg, self.url)
    IN  IF Truthy(scoped.extern[1]) /\ Truthy(scoped.extern[2])
        THEN LET noted == add_info(scoped, InfoFiltered)
             IN  IF ~noted.has_result THEN set_result(noted, MsgFiltered, TRUE, FALSE)
                 ELSE Returned(noted)
        ELSE Returned(scoped)

\* the exception and the log of two calls made one after the other
Then(first, second) ==
    Outcome(second.self, second.exc, first.log \cup second.log)

\* UrlBase.__init__, lines 114-166: the object it leaves; an exception of
\* set_result ends the constructor where it is raised
Constructed(cfg, raw, parent_url, recursion_level, extern, pat) ==
    LET syntax == check_syntax(init(reset, cfg, raw, parent_url, recursion_level, extern),
                               cfg)
        seeded == IF syntax.exc # None THEN syntax
                  ELSE IF recursion_level = 0
                  THEN Then(syntax, add_intern_pattern(syntax.self, pat))
                  ELSE syntax
        cfg2 == IF recursion_level = 0 THEN AppendInternPattern(cfg, pat) ELSE cfg
    IN  IF seeded.exc # None THEN seeded
        ELSE Then(seeded, ClassifyAndFilter(seeded.self, cfg2))

----------------------------------------------------------------------------
(* The connection and content manager *)

\* Read in 16kb chunks, line 112
ReadChunkBytes == 1024 * 16

\* the lengths of the chunks a transport read returns before the stream ends
ChunkSizes == {1, ReadChunkBytes}

\* the transport streams of the model: the chunks still to be read
Streams == {<<>>, <<1>>, <<ReadChunkBytes, 1>>, <<ReadChunkBytes, ReadChunkBytes>>}

\* a fault: the exception class, the arguments the exception was made with
\* and its text, str(evalue). A first argument that is a text and not an errno
\* is unequal to every errno the code compares it with, and is written 0.
Fault(etype, arg0, detail) == [etype |-> etype, args |-> <<arg0>>, detail |-> detail]

\* an exception made without arguments: its text is empty
BareFault(etype) == [etype |-> etype, args |-> <<>>, detail |-> ""]

EBADF == 9
FaultRefused == Fault("ConnectionRefusedError", 111, "[Errno 111] Connection refused")
FaultUnknownHost == Fault("gaierror", -2, "[Errno -2] Name or service not known")
FaultTimeout == Fault("timeout", 0, "timed out")
FaultUnicode == Fault("UnicodeError", 0, "label empty or too long")
FaultBadDescriptor == Fault("OSError", EBADF, "[Errno 9] Bad file descriptor")
FaultInterrupted == Fault("InterruptedError", 4, "[Errno 4] Interrupted system call")

\* OSError(), socket.timeout() and LinkCheckerError() made without arguments
FaultBare == BareFault("OSError")
FaultBareTimeout == BareFault("timeout")
FaultBareChecker == BareFault("LinkCheckerError")

\* an OSError whose text is longer than the limit of line 630
LongDetail == "[Errno 5] a text of 300 characters"
LongDetailCut == "[Errno 5] a text of 300 characters, its first 231"
FaultLong == Fault("OSError", 5, LongDetail)

\* const.ExcNoCacheList
ExcNoCacheList == {"timeout"}

\* isinstance(exc, socket.error): socket.error is OSError, and these are the
\* model's subclasses of it
IsSocketError(fault) ==
    fault.etype \in {"OSError", "ConnectionRefusedError", "gaierror", "timeout",
                     "InterruptedError"}

\* bool(evalue), lines 621 and 627: an exception object defines neither
\* __bool__ nor __len__, so it is true whatever it was made with
ExcTruthy(fault) == TRUE

\* the number of characters of the texts exception messages are made of
StrLen(text) ==
    CASE text = "OSError" -> 7
      [] text = "ConnectionRefusedError" -> 22
      [] text = "gaierror" -> 8
      [] text = "timeout" -> 7
      [] text = "InterruptedError" -> 16
      [] text = "UnicodeError" -> 12
      [] text = "LinkCheckerError" -> 16
      [] text = ": " -> 2
      [] text = "" -> 0
      [] text = "[Errno 111] Connection refused" -> 30
      [] text = "[Errno -2] Name or service not known" -> 36
      [] text = "timed out" -> 9
      [] text = "label empty or too long" -> 23
      [] text = "[Errno 9] Bad file descriptor" -> 29
      [] text = "[Errno 4] Interrupted system call" -> 33
      [] text = "File size too large" -> 19
      [] text = LongDetail -> 300
      [] text = LongDetailCut -> 231

RECURSIVE MsgLen(_)
MsgLen(msg) == IF msg = <<>> THEN 0 ELSE StrLen(Head(msg)) + MsgLen(Tail(msg))

\* the longest message handle_exception returns, line 630
ErrMsgLimit == 240

\* strformat.limit(errmsg, length=240): the message cut to its first 240
\* characters; the only message of the model that is longer is FaultLong's
limit(msg) ==
    IF MsgLen(msg) <= ErrMsgLimit THEN msg
    ELSE <<msg[1], msg[2], LongDetailCut>>

\* the message handle_exception returns, lines 625-630
ExceptionMessage(fault) ==
    limit(<<fault.etype>> \o (IF ExcTruthy(fault) THEN <<": ", fault.detail>> ELSE <<>>))

\* what handle_exception leaves: the object, the exception that escaped it and
\* the message it returned
Handled(self, exc, msg) == [self |-> self, exc |-> exc, msg |-> msg]

\* UrlBase.handle_exception, lines 609-630. etype must be the exact class
\* socket.error for evalue.args[0] to be read, and reading it raises IndexError
\* when the exception was made without arguments.
handle_exception(self, fault) ==
    IF fault.etype \in ExcNoCacheList
    THEN Handled([self EXCEPT !.caching = FALSE], None, ExceptionMessage(fault))
    ELSE IF fault.etype = "OSError" /\ fault.args = <<>>
    THEN Handled(self, Some("IndexError"), <<>>)
    ELSE IF fault.etype = "OSError" /\ fault.args[1] = EBADF
    THEN Handled([self EXCEPT !.caching = FALSE], None, ExceptionMessage(fault))
    ELSE IF ~ExcTruthy(fault)
    THEN Handled([self EXCEPT !.caching = FALSE], None, ExceptionMessage(fault))
    ELSE Handled(self, None, ExceptionMessage(fault))

\* UrlBase.add_size_info, lines 639-651
add_size_info(self, cfg) ==
    IF self.size > cfg.maxfilesizedownload
    THEN add_warning(self, cfg, <<"Content size is larger than maximum">>,
                     WARN_URL_CONTENT_SIZE_TOO_LARGE)
    ELSE self

\* the exception classes of const.ExcList the model raises: an except clause
\* over tuple(ExcList) catches these classes, the subclasses of OSError among
\* them
ExcList ==
    {"OSError", "ConnectionRefusedError", "gaierror", "timeout", "InterruptedError",
     "UnicodeError", "LinkCheckerError"}

\* the except clause of local_check, lines 563-574; exc.args[0] of line 566
\* raises IndexError when a socket error was made without arguments
ConnectionFault(self, fault) ==
    LET handled == handle_exception(self, fault)
        value == IF IsSocketError(fault) /\ fault.args[1] = -2
                 THEN <<"Hostname not found">>
                 ELSE IF fault.etype = "UnicodeError"
                 THEN <<"Bad hostname: ">> \o handled.msg
                 ELSE handled.msg
    IN  IF handled.exc # None THEN Outcome(handled.self, handled.exc, {})
        ELSE IF IsSocketError(fault) /\ fault.args = <<>>
        THEN Outcome(handled.self, Some("IndexError"), {})
        ELSE set_result(handled.self, value, FALSE, FALSE)

\* local_check without the assertion of line 555
local_check_NoAssert(self, cfg, opened, fault) ==
    IF self.url = None THEN Outcome(self, Some("AttributeError"), {})
    ELSE IF fault # None
    THEN Outcome([self EXCEPT !.url_connection = opened, !.has_result = TRUE,
                              !.valid = FALSE], None, {})
    ELSE Returned([self EXCEPT !.url_connection = opened])

\* UrlBase.local_check, lines 551-574. opened is the stream urlopen returns
\* (None if check_connection raises), fault the fault of ExcList raised by
\* check_connection or by a later step of the try block (None if none is).
\* urlopen(None) raises AttributeError, which is no fault of ExcList.
local_check(self, cfg, opened, fault) ==
    IF Truthy(self.extern[2])
    THEN Outcome(self, Some("AssertionError"), {})
    ELSE IF self.url = None THEN Outcome(self, Some("AttributeError"), {})
    ELSE LET connected == IF opened # None
                          THEN add_size_info([self EXCEPT !.url_connection = opened], cfg)
                          ELSE self
         IN  IF fault = None THEN Returned(connected)
             ELSE IF Get(fault).etype \in ExcList
             THEN ConnectionFault(connected, Get(fault))
             ELSE Outcome(connected, Some(Get(fault).etype), {})

\* etype == errno.EINTR, line 546: etype is an exception class and errno.EINTR
\* a number, and a class is equal to no number
ClassIsErrno(etype) == FALSE

\* UrlBase.check, lines 536-549: only an OSError that leaves local_check
\* reaches the except clause
check(self, cfg, opened, fault) ==
    LET out == local_check(self, cfg, opened, fault)
    IN  IF out.exc # None /\ IsSocketError([etype |-> Get(out.exc)])
        THEN IF ClassIsErrno(Get(out.exc))
             THEN Outcome(out.self, Some("KeyboardInterrupt"), out.log)
             ELSE out
        ELSE out

\* read_content without the size test of lines 775-776
RECURSIVE read_content_NoLimit(_, _, _)
read_content_NoLimit(stream, buf, maxbytes) ==
    IF stream = <<>> THEN [size |-> buf, rest |-> stream, too_large |-> FALSE]
    ELSE read_content_NoLimit(Tail(stream), buf + Head(stream), maxbytes)

\* UrlBase.read_content, lines 770-779, from a buffer of buf bytes on: the
\* bytes returned, the stream left and whether the size limit was hit
RECURSIVE read_content(_, _, _)
read_content(stream, buf, maxbytes) ==
    IF stream = <<>> THEN [size |-> buf, rest |-> stream, too_large |-> FALSE]
    ELSE IF buf + Head(stream) > maxbytes
    THEN [size |-> buf, rest |-> Tail(stream), too_large |-> TRUE]
    ELSE read_content(Tail(stream), buf + Head(stream), maxbytes)

\* time.time() - t, line 737: a time that is not negative; the model keeps
\* only that it was measured
Elapsed == 0

\* download_content recording the zero-size warning whatever the size is
download_content_WarnAlways(self, cfg) ==
    LET got == read_content(Get(self.url_connection), 0, cfg.maxfilesizedownload)
        drained == [self EXCEPT !.url_connection = Some(got.rest)]
    IN  IF got.too_large THEN Outcome(drained, Some("LinkCheckerError"), {})
        ELSE Returned(add_warning([drained EXCEPT !.size = got.size, !.dltime = Elapsed],
                                  cfg, <<"Content size is zero.">>,
                                  WARN_URL_CONTENT_SIZE_ZERO))

\* UrlBase.download_content, lines 732-742, on an open connection
download_content(self, cfg) ==
    LET got == read_content(Get(self.url_connection), 0, cfg.maxfilesizedownload)
        drained == [self EXCEPT !.url_connection = Some(got.rest)]
    IN  IF got.too_large THEN Outcome(drained, Some("LinkCheckerError"), {})
        ELSE LET sized == [drained EXCEPT !.size = got.size, !.dltime = Elapsed]
             IN  Returned(IF got.size = 0
                          THEN add_warning(sized, cfg, <<"Content size is zero.">>,
                                           WARN_URL_CONTENT_SIZE_ZERO)
                          ELSE sized)

\* UrlBase.get_raw_content, lines 749-752; reading a connection that was never
\* opened raises AttributeError (line 785)
get_raw_content(self, cfg) ==
    IF self.data # None THEN Returned(self)
    ELSE IF self.url_connection = None THEN Outcome(self, Some("AttributeError"), {})
    ELSE LET got == download_content(self, cfg)
         IN  IF got.exc # None THEN got
             ELSE Returned([got.self EXCEPT !.data = Some(got.self.size)])

\* UrlBase.get_content, lines 754-768: the soup and the text are made of the data
get_content(self, cfg) ==
    IF self.text # None THEN Returned(self)
    ELSE LET raw == get_raw_content(self, cfg)
         IN  IF raw.exc # None THEN raw
             ELSE Returned([raw.self EXCEPT !.soup = raw.self.data,
                                            !.text = raw.self.data])

\* UrlBase.get_soup, lines 744-747
get_soup(self, cfg) ==
    IF self.soup = None THEN get_content(self, cfg) ELSE Returned(self)

\* aggregate.add_downloaded_bytes, called at line 741 for a non-empty download
Downloaded(before, after) ==
    IF after.exc = None /\ before.data = None /\ after.self.data # None
       /\ Get(after.self.data) # 0
    THEN Get(after.self.data)
    ELSE 0

----------------------------------------------------------------------------
(* The recursion gate and the content check *)


\* LinkCheckerError(_("File size too large")), line 776
FaultTooLarge == Fault("LinkCheckerError", 0, "File size too large")

\* UrlBase.can_get_content, lines 728-730
can_get_content(self, cfg) == self.size <= cfg.maxfilesizedownload

\* UrlBase.allows_simple_recursion, lines 653-662
allows_simple_recursion(self, cfg) ==
    IF cfg.recursionlevel >= 0 /\ self.recursion_level >= cfg.recursionlevel THEN FALSE
    ELSE IF Truthy(self.extern[1]) THEN FALSE
    ELSE TRUE

\* what the hooks of the gate give: is_parseable (lines 345-349) returns False
\* in UrlBase and the scheme classes override it, content_allows_robots (lines
\* 689-691) returns True and the HTTP class overrides it; an override returns
\* its answer or raises a fault of ExcList
Hooks(parseable, robots, fault) ==
    [parseable |-> parseable, robots |-> robots, fault |-> fault]

\* the result of the gate: the value returned, or the fault a hook raised
Gate(ret, fault) == [ret |-> ret, fault |-> fault]

\* allows_recursion without the parse-size test of lines 678-680
allows_recursion_NoParseSize(self, cfg, hooks) ==
    IF ~self.valid THEN Gate(FALSE, None)
    ELSE IF ~can_get_content(self, cfg) THEN Gate(FALSE, None)
    ELSE IF ~allows_simple_recursion(self, cfg) THEN Gate(FALSE, None)
    ELSE IF hooks.fault # None THEN Gate(FALSE, hooks.fault)
    ELSE IF ~hooks.parseable THEN Gate(FALSE, None)
    ELSE IF ~hooks.robots THEN Gate(FALSE, None)
    ELSE Gate(TRUE, None)

\* UrlBase.allows_recursion, lines 664-687; a fault of a hook is raised where
\* the first hook is called
allows_recursion(self, cfg, hooks) ==
    IF ~self.valid THEN Gate(FALSE, None)
    ELSE IF ~can_get_content(self, cfg) THEN Gate(FALSE, None)
    ELSE IF ~allows_simple_recursion(self, cfg) THEN Gate(FALSE, None)
    ELSE IF self.size > cfg.maxfilesizeparse THEN Gate(FALSE, None)
    ELSE IF hooks.fault # None THEN Gate(FALSE, hooks.fault)
    ELSE IF ~hooks.parseable THEN Gate(FALSE, None)
    ELSE IF ~hooks.robots THEN Gate(FALSE, None)
    ELSE Gate(TRUE, None)

\* the outcome of a method that returns ret and raises nothing
Answer(self, ret) == [self |-> self, exc |-> None, log |-> {}, ret |-> ret]

\* the keys of UrlBase.ContentMimetypes, lines 89-108
ContentMimetypes ==
    { "text/html", "application/xhtml+xml", "application/x-httpd-php", "text/css",
      "application/vnd.adobe.flash.movie", "application/x-shockwave-flash",
      "application/msword", "text/plain+linkchecker", "text/plain+opera",
      "text/plain+chromium", "application/x-plist+safari", "text/vnd.wap.wml",
      "application/xml+sitemap", "application/xml+sitemapindex",
      "application/pdf", "application/x-pdf" }

\* _("The URL with content type %r is not parseable.") % content_type, line 340
MsgUnparseable(content_type) ==
    <<"The URL with content type is not parseable", content_type>>

\* is_content_type_parseable that warns at every recursion level
is_content_type_parseable_AnyLevel(self, cfg) ==
    IF self.content_type \in ContentMimetypes THEN Answer(self, TRUE)
    ELSE Answer(add_warning(self, cfg, MsgUnparseable(self.content_type),
                            WARN_URL_CONTENT_TYPE_UNPARSEABLE), FALSE)

\* UrlBase.is_content_type_parseable, lines 327-343
is_content_type_parseable(self, cfg) ==
    IF self.content_type \in ContentMimetypes THEN Answer(self, TRUE)
    ELSE IF self.recursion_level = 0
    THEN Answer(add_warning(self, cfg, MsgUnparseable(self.content_type),
                            WARN_URL_CONTENT_TYPE_UNPARSEABLE), FALSE)
    ELSE Answer(self, FALSE)

\* is_parseable as the scheme classes override it: the answer of
\* is_content_type_parseable (UrlBase.is_parseable, lines 345-349, returns
\* False and looks at nothing)
is_parseable(self, cfg, overridden) ==
    IF overridden THEN is_content_type_parseable(self, cfg) ELSE Answer(self, FALSE)

\* the last two tests of allows_recursion, lines 680-687, once is_parseable has
\* given its answer
AfterParseable(parsed, robots) ==
    IF ~parsed.ret THEN Answer(parsed.self, FALSE)
    ELSE IF ~robots THEN Answer(parsed.self, FALSE)
    ELSE Answer(parsed.self, TRUE)

\* UrlBase.allows_recursion, lines 664-687, with the record as is_parseable
\* leaves it; robots is the answer of content_allows_robots
allows_recursion_parsing(self, cfg, overridden, robots) ==
    IF ~self.valid THEN Answer(self, FALSE)
    ELSE IF ~can_get_content(self, cfg) THEN Answer(self, FALSE)
    ELSE IF ~allows_simple_recursion(self, cfg) THEN Answer(self, FALSE)
    ELSE IF self.size > cfg.maxfilesizeparse THEN Answer(self, FALSE)
    ELSE AfterParseable(is_parseable(self, cfg, overridden), robots)

\* the outcome of a method that returns a value, with the fault object that
\* escaped it (if the exception is one of ExcList) and the bytes it has added
\* to the downloaded-bytes counter
Result(self, exc, fault, ret, bytes) ==
    [self |-> self, exc |-> exc, fault |-> fault, log |-> {}, ret |-> ret, bytes |-> bytes]

\* what run_content_plugins leaves when a plugin's read has left got and
\* added bytes to the counter
Plugged(got, bytes, plugin_fault) ==
    IF got.exc = Some("LinkCheckerError")
    THEN Result(got.self, got.exc, Some(FaultTooLarge), FALSE, bytes)
    ELSE IF got.exc # None THEN Result(got.self, got.exc, None, FALSE, bytes)
    ELSE IF plugin_fault # None
    THEN Result(got.self, Some(Get(plugin_fault).etype), plugin_fault, FALSE, bytes)
    ELSE Result(got.self, None, None, FALSE, bytes)

\* plugin_manager.run_content_plugins(self), line 583: a content plugin may
\* read the content (get_content) and may raise a fault of ExcList
run_content_plugins(self, cfg, reads, plugin_fault) ==
    IF reads
    THEN Plugged(get_content(self, cfg), Downloaded(self, get_content(self, cfg)),
                 plugin_fault)
    ELSE Plugged(Returned(self), 0, plugin_fault)

\* the warning of line 588 for the message handle_exception has returned, or
\* the exception that escaped handle_exception
WarnContentFault(handled, cfg) ==
    IF handled.exc # None THEN Outcome(handled.self, handled.exc, {})
    ELSE Returned(add_warning(handled.self, cfg,
                              <<"could not get content: ">> \o handled.msg,
                              WARN_URL_ERROR_GETTING_CONTENT))

\* the except clause of check_content, lines 586-592
ContentFault(self, cfg, fault) == WarnContentFault(handle_exception(self, fault), cfg)

\* check_content returning False after its except clause, line 592
Caught(caught, bytes) == Result(caught.self, caught.exc, None, FALSE, bytes)

\* lines 584-592 of check_content: the gate has been evaluated
Gated(plugged, gate, cfg) ==
    IF gate.fault # None
    THEN Caught(ContentFault(plugged.self, cfg, Get(gate.fault)), plugged.bytes)
    ELSE Result(plugged.self, None, None, gate.ret, plugged.bytes)

\* lines 583-592 of check_content: the content plugins have run. An exception
\* that is not of ExcList (the AttributeError of a read without a connection)
\* escapes.
Checked(plugged, cfg, hooks) ==
    IF plugged.exc # None /\ plugged.fault = None THEN plugged
    ELSE IF plugged.fault # None
    THEN Caught(ContentFault(plugged.self, cfg, Get(plugged.fault)), plugged.bytes)
    ELSE Gated(plugged, allows_recursion(plugged.self, cfg, hooks), cfg)

\* UrlBase.check_content, lines 576-593
check_content(self, cfg, reads, plugin_fault, hooks) ==
    IF ~(self.do_check_content /\ self.valid) THEN Result(self, None, None, FALSE, 0)
    ELSE IF can_get_content(self, cfg)
    THEN Checked(run_content_plugins(self, cfg, reads, plugin_fault), cfg, hooks)
    ELSE Checked(Result(self, None, None, FALSE, 0), cfg, hooks)

----------------------------------------------------------------------------
(* The operations on the record *)

\* the record exists
Alive == pc \in {"live", "checked"}

\* the state after a method of the record has run
Finish(name, out) ==
    /\ op' = name
    /\ rec' = out.self
    /\ raised' = out.exc
    /\ logged' = out.log
    /\ returned' = None
    /\ UNCHANGED <<workers, wire, urlqueue>>

\* the state after a method that returns a value has run
FinishReturning(name, out) ==
    /\ op' = name
    /\ rec' = out.self
    /\ raised' = out.exc
    /\ logged' = out.log
    /\ returned' = IF out.exc = None THEN Some(out.ret) ELSE None
    /\ UNCHANGED <<workers, wire, urlqueue>>

\* whether __init__ reaches line 159 with these arguments
ReachesSeeding(cfg, raw, parent_url, recursion_level, extern) ==
    /\ recursion_level = 0
    /\ check_syntax(init(reset, cfg, raw, parent_url, recursion_level, extern), cfg).exc
       = None

\* UrlBase(base_url, recursion_level, aggregate, parent_url, extern=extern),
\* lines 114-166; pat is what get_intern_pattern yields for the new record
Construct(raw, parent_url, recursion_level, extern, pat) ==
    /\ pc = "new"
    /\ LET out == Constructed(config, raw, parent_url, recursion_level, extern, pat)
       IN  /\ Finish("__init__", out)
           /\ pc' = IF out.exc = None THEN "live" ELSE "dead"
    /\ config' = IF ReachesSeeding(config, raw, parent_url, recursion_level, extern)
                 THEN AppendInternPattern(config, pat)
                 ELSE config
    /\ UNCHANGED downloaded_bytes

\* a further self.set_extern(url) call, lines 693-721
SetExtern(url) ==
    /\ Alive
    /\ Finish("set_extern", Returned(set_extern(rec, config, url)))
    /\ UNCHANGED <<config, downloaded_bytes, pc>>

\* a further add_intern_pattern call on the shared intern pattern list, lines
\* 849-858 (a seed's, or the record's own for a redirect target)
AddInternPattern(pat) ==
    /\ Alive
    /\ Len(config.internlinks) < MaxInternLinks
    /\ Finish("add_intern_pattern", add_intern_pattern(rec, pat))
    /\ config' = AppendInternPattern(config, pat)
    /\ UNCHANGED <<downloaded_bytes, pc>>

\* check() calling local_check, lines 536-574, run once by the driver
LocalCheck(opened, fault) ==
    /\ pc = "live"
    /\ opened = None => fault # None
    /\ Finish("local_check", local_check(rec, config, opened, fault))
    /\ pc' = "checked"
    /\ UNCHANGED <<config, downloaded_bytes>>

\* self.check(), lines 536-549, run once by the driver
Check(opened, fault) ==
    /\ pc = "live"
    /\ opened = None => fault # None
    /\ Finish("check", check(rec, config, opened, fault))
    /\ pc' = "checked"
    /\ UNCHANGED <<config, downloaded_bytes>>

\* the list object self.info itself, as to_wire_dict passes it on (line 947)
InfoList == "self.info"

\* UrlBase.to_wire_dict, lines 932-955, for the attributes the model holds:
\* the warning list is copied (self.warnings[:]), the info list is not
to_wire_dict(self) ==
    [ valid |-> self.valid, extern |-> self.extern[1], result |-> self.result,
      warnings |-> self.warnings,
      parent_url |-> IF self.parent_url = None THEN "" ELSE Get(self.parent_url),
      base_url |-> IF self.base_url = None THEN "" ELSE Get(self.base_url),
      url |-> IF self.url = None THEN "" ELSE Get(self.url),
      dltime |-> self.dltime, size |-> self.size, info |-> InfoList,
      cache_url |-> self.cache_url, content_type |-> self.content_type,
      level |-> self.recursion_level ]

\* what the attributes of a snapshot read: CompactUrlData stores the values
\* of the dictionary (lines 993-997), so its info attribute is the record's
\* list object and reads what that list holds now
WireFields(snapshot, self) ==
    IF snapshot.info = InfoList THEN [snapshot EXCEPT !.info = self.info] ELSE snapshot

\* to_wire(), lines 957-960
ToWire ==
    /\ Alive
    /\ wire' = Some(to_wire_dict(rec))
    /\ op' = "to_wire" /\ raised' = None /\ logged' = {} /\ returned' = None
    /\ UNCHANGED <<rec, config, downloaded_bytes, pc, workers, urlqueue>>

\* get_url_from(url, recursion_level, aggregate, parent_url=...), lines
\* 802-814: the record of the child's scheme class, made by its constructor
get_url_from(cfg, url, recursion_level, parent_url) ==
    Constructed(cfg, Some(RawRef(url, FALSE)), parent_url, recursion_level, None,
                PatternResult(None, FALSE))

\* add_url giving the child the level of the record that found it
add_url_SameLevel(self, cfg, url, parent) ==
    get_url_from(cfg, url, self.recursion_level,
                 IF parent = None THEN self.url ELSE parent)

\* UrlBase.add_url, lines 797-816, without base: the child record that is put
\* in the queue, or the exception its construction raises
add_url(self, cfg, url, parent) ==
    get_url_from(cfg, url, self.recursion_level + 1,
                 IF parent = None THEN self.url ELSE parent)

\* self.handle_exception() called in an except clause with this fault, lines
\* 609-630
HandleException(fault) ==
    /\ Alive
    /\ LET handled == handle_exception(rec, fault)
       IN  FinishReturning("handle_exception",
                           [self |-> handled.self, exc |-> handled.exc, log |-> {},
                            ret |-> handled.msg])
    /\ UNCHANGED <<config, downloaded_bytes, pc>>

\* set_result(msg, valid, overwrite), lines 280-309
SetResult(msg, valid, overwrite) ==
    /\ Alive
    /\ Finish("set_result", set_result(rec, msg, valid, overwrite))
    /\ UNCHANGED <<config, downloaded_bytes, pc>>

\* add_warning(s, tag), lines 382-391
AddWarning(s, tag) ==
    /\ Alive
    /\ Finish("add_warning", Returned(add_warning(rec, config, s, tag)))
    /\ UNCHANGED <<config, downloaded_bytes, pc>>

\* add_info(s), lines 393-398
AddInfo(s) ==
    /\ Alive
    /\ Finish("add_info", Returned(add_info(rec, s)))
    /\ UNCHANGED <<config, downloaded_bytes, pc>>

\* a content getter, with the counter add_downloaded_bytes keeps
Fetch(name, out) ==
    /\ Alive
    /\ Finish(name, out)
    /\ downloaded_bytes' = downloaded_bytes + Downloaded(rec, out)
    /\ UNCHANGED <<config, pc>>

\* get_raw_content(), lines 749-752
GetRawContent == Fetch("get_raw_content", get_raw_content(rec, config))

\* get_content(), lines 754-768
GetContent == Fetch("get_content", get_content(rec, config))

\* get_soup(), lines 744-747
GetSoup == Fetch("get_soup", get_soup(rec, config))

\* close_connection(), lines 595-607
CloseConnection ==
    /\ Alive
    /\ Finish("close_connection", Returned([rec EXCEPT !.url_connection = None]))
    /\ UNCHANGED <<config, downloaded_bytes, pc>>

\* allows_recursion(), lines 664-687; a fault of a hook escapes the call
AllowsRecursion(hooks) ==
    /\ Alive
    /\ LET gate == allows_recursion(rec, config, hooks)
       IN  FinishReturning("allows_recursion",
                           [self |-> rec, log |-> {}, ret |-> gate.ret,
                            exc |-> IF gate.fault = None THEN None
                                    ELSE Some(Get(gate.fault).etype)])
    /\ UNCHANGED <<config, downloaded_bytes, pc>>

\* set_content_type(), lines 723-726, as the scheme classes override it: the
\* MIME type the transport reports is stored (UrlBase's own does nothing)
SetContentType(mime) ==
    /\ Alive
    /\ Finish("set_content_type", Returned([rec EXCEPT !.content_type = mime]))
    /\ UNCHANGED <<config, downloaded_bytes, pc>>

\* is_content_type_parseable(), lines 327-343
IsContentTypeParseable ==
    /\ Alive
    /\ FinishReturning("is_content_type_parseable", is_content_type_parseable(rec, config))
    /\ UNCHANGED <<config, downloaded_bytes, pc>>

\* allows_recursion(), lines 664-687, of a record whose is_parseable is
\* UrlBase's (overridden false) or asks is_content_type_parseable
AllowsRecursionParsing(overridden, robots) ==
    /\ Alive
    /\ FinishReturning("allows_recursion",
                       allows_recursion_parsing(rec, config, overridden, robots))
    /\ UNCHANGED <<config, downloaded_bytes, pc>>

\* add_url(url, parent=parent), lines 797-816; the driver calls it for the
\* references it finds in the content of the record
AddUrl(url, parent) ==
    /\ pc \in {"live", "checked", "parsing"}
    /\ rec.recursion_level < MaxDepth
    /\ Len(urlqueue) < MaxQueue
    /\ LET out == add_url(rec, config, url, parent)
       IN  /\ raised' = out.exc
           /\ logged' = out.log
           /\ urlqueue' = IF out.exc = None THEN Append(urlqueue, out.self)
                           ELSE urlqueue
    /\ op' = "add_url" /\ returned' = None
    /\ UNCHANGED <<rec, config, downloaded_bytes, pc, workers, wire>>

\* the driver asks allows_recursion (lines 664-687) and goes on to parse the
\* content of the record if the answer is true
DriverRecursion(hooks) ==
    /\ pc \in {"live", "checked"}
    /\ LET gate == allows_recursion(rec, config, hooks)
       IN  /\ FinishReturning("allows_recursion",
                              [self |-> rec, log |-> {}, ret |-> gate.ret,
                               exc |-> IF gate.fault = None THEN None
                                       ELSE Some(Get(gate.fault).etype)])
           /\ pc' = IF gate.ret THEN "parsing" ELSE "checked"
    /\ UNCHANGED <<config, downloaded_bytes>>

\* the driver takes the next record out of the queue and goes on with it
TakeFromQueue ==
    /\ pc # "new" /\ urlqueue # <<>>
    /\ rec' = Head(urlqueue) /\ urlqueue' = Tail(urlqueue)
    /\ pc' = "live"
    /\ op' = "urlqueue.get" /\ raised' = None /\ logged' = {} /\ returned' = None
    /\ UNCHANGED <<config, downloaded_bytes, workers, wire>>

\* check_content(), lines 576-593, which the driver calls after check()
CheckContent(reads, plugin_fault, hooks) ==
    /\ pc = "checked"
    /\ LET out == check_content(rec, config, reads, plugin_fault, hooks)
       IN  /\ FinishReturning("check_content", out)
           /\ downloaded_bytes' = downloaded_bytes + out.bytes
    /\ UNCHANGED <<config, pc>>

----------------------------------------------------------------------------
(* Configurations and specifications *)

Config(externlinks, internlinks, checkextern, ignoreerrors, ignorewarnings) ==
    [ externlinks |-> externlinks, internlinks |-> internlinks,
      checkextern |-> checkextern, ignoreerrors |-> ignoreerrors,
      ignorewarnings |-> ignorewarnings, enabledplugins |-> {},
      maxfilesizedownload |-> ReadChunkBytes + 1,
      maxfilesizeparse |-> ReadChunkBytes + 1, recursionlevel |-> -1 ]

InitRecord ==
    /\ rec = reset
    /\ downloaded_bytes = 0
    /\ pc = "new"
    /\ op = "none"
    /\ raised = None
    /\ logged = {}
    /\ returned = None
    /\ workers = <<>>
    /\ wire = None
    /\ urlqueue = <<>>

\* the pre-decided scopes a caller passes as extern
ExternArgs == {None, <<0, 0>>, <<1, 1>>}

\* what get_intern_pattern yields for a seed
SeedPatterns == {PatternResult(None, FALSE)}
                \cup {PatternResult(Some(p), FALSE) : p \in UrlPatterns}

\* The scope classifier under every pattern configuration
InitScope ==
    /\ InitRecord
    /\ \E externlinks \in SeqsUpTo(ExternEntries, MaxExternLinks),
          internlinks \in SeqsUpTo(InternEntries, MaxInternLinks - 1),
          checkextern \in BOOLEAN :
         config = Config(externlinks, internlinks, checkextern, <<>>, {})

\* the references and recursion levels records are constructed with
ScopeRefs == {Some(RawRef(body, FALSE)) : body \in {"", "http://A/", "http://b/"}}
Levels == {0, 1}

NextScope ==
    \/ \E raw \in ScopeRefs, recursion_level \in Levels,
          extern \in ExternArgs, pat \in SeedPatterns :
         Construct(raw, None, recursion_level, extern, pat)
    \/ \E url \in {Some("http://a/"), Some("http://b/")} : SetExtern(url)
    \/ \E pat \in InternPatternResults : AddInternPattern(pat)
    \/ \E opened \in {None, Some(<<1>>)}, fault \in {None, Some(FaultRefused)} :
         (opened = None \/ fault = None) /\ LocalCheck(opened, fault)

SpecScope == InitScope /\ [][NextScope]_vars

----------------------------------------------------------------------------
(* Claims on the scope classifier, checked under SpecScope *)

Strict(self) == self.extern # None /\ Truthy(self.extern[2])

\* the entry at index i is the first of the list that matches url
IsFirstMatch(entries, url, i) ==
    /\ i \in 1..Len(entries)
    /\ EntryMatches(entries[i], url)
    /\ \A j \in 1..(i - 1) : ~EntryMatches(entries[j], url)

NoMatch(entries, url) == \A i \in 1..Len(entries) : ~EntryMatches(entries[i], url)

\* a step that is the construction of a record, with these arguments
Constructs(extern) ==
    /\ pc = "new" /\ pc' = "live"
    /\ \E raw \in ScopeRefs, recursion_level \in Levels, pat \in SeedPatterns :
         Construct(raw, None, recursion_level, extern, pat)

\* C1: a record whose scope has the strict flag set never holds an opened
\* connection, and local_check on it fails its assertion (AssertionError)
\* before anything of the record is touched.
C1_StrictNeverConnected ==
    [][ /\ (pc' # "new" /\ Strict(rec')) => rec'.url_connection = None
        /\ (pc = "live" /\ pc' = "checked" /\ Strict(rec))
             => raised' = Some("AssertionError") /\ rec' = rec ]_vars

C1_Witness ==
    op = "local_check" /\ Strict(rec) /\ raised = Some("AssertionError")

\* C2 as stated: whenever a record is constructed with a non-empty URL that
\* some extern entry matches, its scope is extern with the strict flag of the
\* first matching extern entry.
C2_Original ==
    [][ \A extern \in ExternArgs :
          (Constructs(extern) /\ rec'.url # None)
            => \A i \in 1..Len(config'.externlinks) :
                 IsFirstMatch(config'.externlinks, Get(rec'.url), i)
                   => rec'.extern = <<1, config'.externlinks[i].strict>> ]_vars

\* C2 amended: the same, for a record constructed without a pre-decided scope
\* (extern=None), whether or not an intern entry matches too.
C2_FirstExternMatchWins ==
    [][ (Constructs(None) /\ rec'.url # None)
          => \A i \in 1..Len(config'.externlinks) :
               IsFirstMatch(config'.externlinks, Get(rec'.url), i)
                 => rec'.extern = <<1, config'.externlinks[i].strict>> ]_vars

\* an extern entry that is not the first of its list decides the scope of a
\* URL that an intern entry matches too
C2_Witness ==
    /\ op = "__init__" /\ pc = "live" /\ rec.url # None
    /\ Len(config.externlinks) = 2
    /\ IsFirstMatch(config.externlinks, Get(rec.url), 2)
    /\ FirstMatch(config.internlinks, Get(rec.url)) # 0
    /\ config.externlinks[1].strict # config.externlinks[2].strict
    /\ rec.extern = <<1, config.externlinks[2].strict>>

\* the scope lines 703-721 give a URL when no extern entry matches it
ScopeWithoutExternMatch(cfg, url) ==
    IF url = None THEN <<1, 1>>
    ELSE IF ~NoMatch(cfg.internlinks, Get(url)) THEN <<0, 0>>
    ELSE IF cfg.checkextern THEN <<1, 0>>
    ELSE <<1, 1>>

\* C3 as stated: whenever a record is constructed, an empty or missing URL is
\* (extern, strict), and a URL no extern entry matches is intern if an intern
\* entry matches it, else extern and strict exactly when checkextern is off.
C3_Original ==
    [][ \A extern \in ExternArgs :
          (Constructs(extern)
           /\ (rec'.url = None \/ NoMatch(config'.externlinks, Get(rec'.url))))
            => rec'.extern = ScopeWithoutExternMatch(config', rec'.url) ]_vars

\* C3 amended: the same, for a record constructed without a pre-decided scope.
C3_InternThenToggle ==
    [][ (Constructs(None)
         /\ (rec'.url = None \/ NoMatch(config'.externlinks, Get(rec'.url))))
          => rec'.extern = ScopeWithoutExternMatch(config', rec'.url) ]_vars

\* a URL that matches no entry of two non-empty lists, with checkextern on
C3_Witness ==
    /\ op = "__init__" /\ pc = "live" /\ rec.url # None
    /\ config.externlinks # <<>> /\ config.internlinks # <<>>
    /\ NoMatch(config.externlinks, Get(rec.url))
    /\ NoMatch(config.internlinks, Get(rec.url))
    /\ config.checkextern
    /\ rec.extern = <<1, 0>>

\* C4: a scope that is set never changes: a pre-decided scope survives the
\* construction, and no operation on a constructed record changes its scope,
\* whatever has been appended to the intern pattern list meanwhile.
C4_ScopeSetOnce ==
    [][ /\ \A extern \in ExternArgs \ {None} :
             Constructs(extern) => rec'.extern = extern
        /\ Alive => (rec.extern # None /\ rec'.extern = rec.extern) ]_vars

\* set_extern has been called again after an append to the intern pattern list
\* that would now classify the URL differently
C4_Witness ==
    /\ op = "set_extern" /\ rec.url # None
    /\ config.externlinks = <<>>
    /\ rec.extern = <<1, 0>>
    /\ ~NoMatch(config.internlinks, Get(rec.url))

----------------------------------------------------------------------------
(* The result recorder and the content cache, checked under SpecResult *)

\* the message regexes of the ignore rules
MsgPatterns ==
    {MsgPattern("err", FALSE), MsgPattern("err", TRUE), MsgPattern(IgnoredPrefix, FALSE)}

\* the entries config["ignoreerrors"] is made of
IgnoreRules == {IgnoreRule(p, m) : p \in UrlPatterns, m \in MsgPatterns}

\* the result recorder under every ordered list of ignore rules
InitResult ==
    /\ InitRecord
    /\ \E ignoreerrors \in SeqsUpTo(IgnoreRules, MaxIgnoreErrors) :
         config = Config(<<>>, <<>>, TRUE, ignoreerrors, {})

\* the messages set_result is called with
ResultMsgs == {<<>>, <<"ok">>, <<"err">>}

ResultRefs ==
    {Some(RawRef(body, FALSE)) : body \in {"", "http://A/", "http://b/"}}

NextResult ==
    \/ \E raw \in ResultRefs, extern \in {None, <<1, 1>>} :
         Construct(raw, None, 1, extern, PatternResult(None, FALSE))
    \/ \E opened \in {None, Some(<<1>>)}, fault \in {None, Some(FaultTimeout)} :
         LocalCheck(opened, fault)
    \/ \E msg \in ResultMsgs, valid \in BOOLEAN, overwrite \in BOOLEAN :
         SetResult(msg, valid, overwrite)
    \/ GetRawContent
    \/ GetContent
    \/ GetSoup

SpecResult == InitResult /\ [][NextResult]_vars

\* a step that is a set_result call with these arguments
SetsResult(msg, valid, overwrite) ==
    op' = "set_result" /\ SetResult(msg, valid, overwrite)

\* a message without the prefixes the ignore rules have put before it
RECURSIVE StripIgnored(_)
StripIgnored(result) ==
    IF result # <<>> /\ Head(result) = IgnoredPrefix THEN StripIgnored(Tail(result))
    ELSE result

\* the rule at index i has its URL pattern matching url and its message
\* pattern matching msg
RuleMatches(rules, i, url, msg) ==
    Search(rules[i][1], url) /\ MsgSearch(rules[i][2], msg)

\* C5: has_result is true after a set_result call and never becomes false
\* again; the call is logged as a conflict exactly when a result existed and
\* overwrite is false; in every case the stored message is the message of this
\* call (behind the prefix of the ignore rules, if they applied) and the stored
\* validity is the validity of this call (true if the ignore rules applied).
C5_LatestResultStored ==
    [][ /\ (Alive /\ rec.has_result) => rec'.has_result
        /\ \A msg \in ResultMsgs, valid \in BOOLEAN, overwrite \in BOOLEAN :
             SetsResult(msg, valid, overwrite)
               => /\ rec'.has_result
                  /\ ("Double result" \in logged') <=> (rec.has_result /\ ~overwrite)
                  /\ StripIgnored(rec'.result) = msg
                  /\ rec'.valid <=> (valid \/ rec'.result # msg)
                  /\ (valid \/ config.ignoreerrors = <<>>) => rec'.result = msg ]_vars

\* an invalid result has replaced an earlier one without overwrite: the
\* conflict is logged and the new result is the stored one
C5_Witness ==
    /\ op = "set_result" /\ raised = None
    /\ "Double result" \in logged
    /\ rec.result = <<"err">> /\ ~rec.valid

\* C6 as stated: once a record has a result, its stored message and validity
\* change only in a set_result call with overwrite=true.
C6_ResultSetOnce ==
    [][ (Alive /\ rec.has_result /\ (rec'.result # rec.result \/ rec'.valid # rec.valid))
          => \E msg \in ResultMsgs, valid \in BOOLEAN : SetsResult(msg, valid, TRUE) ]_vars

\* C7 as stated: a set_result call with valid=false and message m ends valid
\* with the message "Ignored: " + m if some ignore rule matches the URL and m,
\* and invalid with the message m otherwise; a call with valid=true stores m.
C7_FirstRuleOnly ==
    [][ \A msg \in ResultMsgs, overwrite \in BOOLEAN :
          /\ (SetsResult(msg, FALSE, overwrite) /\ raised' = None)
               => IF \E i \in 1..Len(rec.ignore_errors) :
                       RuleMatches(rec.ignore_errors, i, Get(rec.url), msg)
                  THEN rec'.valid /\ rec'.result = <<IgnoredPrefix>> \o msg
                  ELSE ~rec'.valid /\ rec'.result = msg
          /\ SetsResult(msg, TRUE, overwrite) => (rec'.valid /\ rec'.result = msg) ]_vars

\* C8: a set_result call that returns leaves data None and leaves the text and
\* the soup as they were, whatever its arguments and whether or not a result
\* existed.
C8_ResultFreesData ==
    [][ \A msg \in ResultMsgs, valid \in BOOLEAN, overwrite \in BOOLEAN :
          (SetsResult(msg, valid, overwrite) /\ raised' = None)
            => /\ rec'.data = None
               /\ rec'.text = rec.text
               /\ rec'.soup = rec.soup ]_vars

\* set_result has returned on a record whose content had been downloaded and
\* decoded
C8_Witness ==
    /\ op = "set_result" /\ raised = None /\ rec.has_result
    /\ rec.data = None /\ rec.text # None /\ rec.soup # None

\* C9 as stated: a record with a result holds no content data.
C9_Original == (Alive /\ rec.has_result) => rec.data = None

\* C9 amended: a set_result call that returns leaves no content data, and the
\* content data of a record with a result is put there only by one of the
\* content getters (get_raw_content, get_content, get_soup), which download
\* the content again.
C9_DataOnlyByDownload ==
    [][ /\ (op' = "set_result" /\ raised' = None) => rec'.data = None
        /\ (Alive /\ rec'.has_result /\ rec'.data # None /\ rec'.data # rec.data)
             => op' \in {"get_raw_content", "get_content", "get_soup"} ]_vars

\* a content getter has downloaded the content of a record that has a result
C9_Witness ==
    /\ Alive /\ rec.has_result /\ rec.data # None
    /\ op \in {"get_raw_content", "get_content", "get_soup"}

----------------------------------------------------------------------------
(* The diagnostics recorder, checked under SpecWarn *)

\* the tags and the messages add_warning is called with
WarnTags == {"tag-a", WARN_URL_CONTENT_SIZE_ZERO}
WarnMsgs == {<<"first">>, <<"second">>}

\* the diagnostics recorder under every set of ignored warning tags
InitWarn ==
    /\ InitRecord
    /\ \E ignorewarnings \in SUBSET {"tag-a", WARN_URL_WHITESPACE} :
         config = Config(<<>>, <<>>, TRUE, <<>>, ignorewarnings)

NextWarn ==
    \/ \E ws \in BOOLEAN :
         Construct(Some(RawRef("http://A/", ws)), None, 1, None, PatternResult(None, FALSE))
    \/ \E s \in WarnMsgs, tag \in WarnTags : AddWarning(s, tag)
    \/ \E s \in WarnMsgs : AddInfo(s)
    \/ \E opened \in {Some(<<>>), Some(<<1>>)} : LocalCheck(opened, None)
    \/ \E msg \in {<<"ok">>} : SetResult(msg, TRUE, FALSE)
    \/ GetRawContent

SpecWarn == InitWarn /\ [][NextWarn]_vars

\* no two entries of the list are equal
NoDuplicates(s) == \A i, j \in 1..Len(s) : s[i] = s[j] => i = j

\* C10: the warning list never holds two equal (tag, message) pairs, and a
\* step on a record either leaves the list as it is or appends, at its end, one
\* pair that was not in it.
C10_WarningsDeduplicated ==
    [][ /\ NoDuplicates(rec'.warnings)
        /\ Alive => \/ rec'.warnings = rec.warnings
                    \/ /\ Len(rec'.warnings) = Len(rec.warnings) + 1
                       /\ SubSeq(rec'.warnings, 1, Len(rec.warnings)) = rec.warnings
                       /\ ~InSeq(rec'.warnings[Len(rec'.warnings)], rec.warnings) ]_vars

\* add_warning has been called on a list that holds the whitespace warning of
\* the construction, the zero-size warning of a download and two warnings of
\* one tag
C10_Witness ==
    /\ op = "add_warning"
    /\ Len(rec.warnings) = 4
    /\ rec.warnings[1][1] = WARN_URL_WHITESPACE
    /\ \E i, j \in 2..4 : /\ i < j
                          /\ rec.warnings[i][1] = WARN_URL_CONTENT_SIZE_ZERO
                          /\ rec.warnings[j][1] = WARN_URL_CONTENT_SIZE_ZERO

\* a step that is an add_warning call with these arguments
AddsWarning(s, tag) == op' = "add_warning" /\ AddWarning(s, tag)

\* the number of entries of a list that equal x
Count(x, s) == Cardinality({i \in 1..Len(s) : s[i] = x})

\* C11: an add_warning call with an ignored tag leaves the warning list as it
\* is and leaves its message exactly once in the info list, however often it
\* is repeated; no warning of the list ever carries an ignored tag.
C11_IgnoredWarningIsInfo ==
    [][ /\ \A i \in 1..Len(rec'.warnings) : rec'.warnings[i][1] \notin config'.ignorewarnings
        /\ \A s \in WarnMsgs, tag \in WarnTags :
             (AddsWarning(s, tag) /\ tag \in config.ignorewarnings)
               => /\ rec'.warnings = rec.warnings
                  /\ Count(s, rec'.info) = 1 ]_vars

\* the last call was an add_warning that left the warning list empty, so its
\* tag was an ignored one: its message is an info, behind the whitespace
\* message the construction recorded as an info for the same reason
C11_Witness ==
    /\ op = "add_warning"
    /\ config.ignorewarnings = {"tag-a", WARN_URL_WHITESPACE}
    /\ rec.warnings = <<>>
    /\ Len(rec.info) = 2
    /\ rec.info[1] = <<"Leading or trailing whitespace in URL", "http://A/">>
    /\ rec.info[2] = <<"first">>

----------------------------------------------------------------------------
(* The content download, checked under SpecContent *)

\* the transport streams: every sequence of chunks a read of ReadChunkBytes
\* can return, a chunk being short (1 byte) or full
ContentStreams == SeqsUpTo(ChunkSizes, MaxChunks)

\* the values of config["maxfilesizedownload"]
Caps == {1, ReadChunkBytes, ReadChunkBytes + 1, 2 * ReadChunkBytes}

\* the content download under every download cap, with the zero-size warning
\* ignored or not
InitContent ==
    /\ InitRecord
    /\ \E cap \in Caps, ignorewarnings \in SUBSET {WARN_URL_CONTENT_SIZE_ZERO} :
         config = [Config(<<>>, <<>>, TRUE, <<>>, ignorewarnings)
                     EXCEPT !.maxfilesizedownload = cap]

NextContent ==
    \/ Construct(Some(RawRef("http://A/", FALSE)), None, 1, None, PatternResult(None, FALSE))
    \/ \E stream \in ContentStreams : LocalCheck(Some(stream), None)
    \/ \E valid \in BOOLEAN : SetResult(<<"ok">>, valid, FALSE)
    \/ GetRawContent
    \/ GetContent
    \/ GetSoup

SpecContent == InitContent /\ [][NextContent]_vars

\* the bytes of the first k chunks of a stream
RECURSIVE PrefixSum(_, _)
PrefixSum(stream, k) == IF k = 0 THEN 0 ELSE PrefixSum(stream, k - 1) + stream[k]

\* a step in which a content getter calls download_content on the connection
DownloadStep ==
    /\ Alive /\ rec.url_connection # None /\ rec.data = None
    /\ \/ op' = "get_raw_content"
       \/ op' = "get_content" /\ rec.text = None
       \/ op' = "get_soup" /\ rec.soup = None /\ rec.text = None

\* the chunk at index k is the first with which the stream exceeds the cap
FirstOver(stream, cap, k) ==
    /\ k \in 1..Len(stream)
    /\ PrefixSum(stream, k) > cap
    /\ \A j \in 1..(k - 1) : PrefixSum(stream, j) <= cap

\* C12: a download of a stream that exceeds the cap raises the size fault at
\* the first chunk with which the buffered bytes would exceed it: the chunks
\* behind that one are still unread, and size and data are as unset as before
\* and nothing is counted as downloaded; a download that succeeds records as
\* size the total bytes of the stream, which is at most the cap.
C12_SizeLimit ==
    [][ DownloadStep
          => LET stream == Get(rec.url_connection)
                 cap == config.maxfilesizedownload
             IN  IF \E k \in 1..Len(stream) : FirstOver(stream, cap, k)
                 THEN /\ raised' = Some("LinkCheckerError")
                      /\ rec.size = -1 /\ rec'.size = -1 /\ rec'.dltime = -1
                      /\ rec'.data = None /\ rec'.text = None /\ rec'.soup = None
                      /\ downloaded_bytes' = downloaded_bytes
                      /\ \E k \in 1..Len(stream) :
                           /\ FirstOver(stream, cap, k)
                           /\ rec'.url_connection
                                = Some(SubSeq(stream, k + 1, Len(stream)))
                 ELSE /\ raised' = None
                      /\ rec'.size = PrefixSum(stream, Len(stream))
                      /\ rec'.size <= cap
                      /\ rec'.dltime = Elapsed
                      /\ rec'.data = Some(rec'.size)
                      /\ rec'.url_connection = Some(<<>>) ]_vars

\* a download has raised the size fault at the second chunk of a stream of
\* three: the third chunk is unread and no size is recorded
C12_Witness ==
    /\ op \in {"get_raw_content", "get_content", "get_soup"}
    /\ raised = Some("LinkCheckerError")
    /\ config.maxfilesizedownload = ReadChunkBytes
    /\ rec.url_connection = Some(<<1>>)
    /\ rec.size = -1 /\ rec.data = None

\* the message of the zero-size warning, line 739
MsgSizeZero == <<"Content size is zero.">>

\* the warnings of a list that carry the zero-size tag
ZeroSizeWarnings(warnings) ==
    {i \in 1..Len(warnings) : warnings[i][1] = WARN_URL_CONTENT_SIZE_ZERO}

\* a download step that succeeds
DownloadSucceeds == DownloadStep /\ raised' = None

\* what C13 says of every successful download but the warning list after a
\* zero-byte one: zero bytes set size to 0 and leave the result as it was; one
\* or more bytes leave the warnings and infos as they were and add the size to
\* the downloaded-bytes counter
DownloadEffects ==
    IF rec'.size = 0
    THEN /\ rec'.valid = rec.valid /\ rec'.result = rec.result
         /\ rec'.has_result = rec.has_result
         /\ downloaded_bytes' = downloaded_bytes
    ELSE /\ rec'.size >= 1
         /\ rec'.warnings = rec.warnings /\ rec'.info = rec.info
         /\ downloaded_bytes' = downloaded_bytes + rec'.size

\* C13 as stated: after a successful download of zero bytes the warning list
\* holds exactly one zero-size warning.
C13_Original ==
    [][ DownloadSucceeds
          => /\ DownloadEffects
             /\ rec'.size = 0 => Cardinality(ZeroSizeWarnings(rec'.warnings)) = 1 ]_vars

\* C13 amended: the same when the zero-size tag is not in ignorewarnings; when
\* it is, the warning list is left as it was and the message is in the info
\* list exactly once.
C13_ZeroSizeWarning ==
    [][ DownloadSucceeds
          => /\ DownloadEffects
             /\ rec'.size = 0
                  => IF WARN_URL_CONTENT_SIZE_ZERO \in config.ignorewarnings
                     THEN /\ rec'.warnings = rec.warnings
                          /\ Count(MsgSizeZero, rec'.info) = 1
                     ELSE /\ Cardinality(ZeroSizeWarnings(rec'.warnings)) = 1
                          /\ rec'.info = rec.info ]_vars

\* the content of a record that has a result has been downloaded as zero
\* bytes, and the list holds the one zero-size warning
C13_Witness ==
    /\ op = "get_raw_content" /\ raised = None
    /\ rec.size = 0 /\ rec.data = Some(0) /\ rec.text = Some(0)
    /\ rec.has_result /\ ~rec.valid
    /\ WARN_URL_CONTENT_SIZE_ZERO \notin config.ignorewarnings
    /\ rec.warnings = << <<WARN_URL_CONTENT_SIZE_ZERO, MsgSizeZero>> >>

\* the content getters
Getters == {"get_raw_content", "get_content", "get_soup"}

\* C26: once a download has succeeded, a later content getter does not read
\* the connection, leaves the size and the downloaded-bytes counter as they
\* were and adds no zero-size warning, whatever set_result calls came between.
C26_DownloadedOnce ==
    [][ (rec.dltime # -1 /\ op' \in Getters /\ raised' = None)
          => /\ rec'.url_connection = rec.url_connection
             /\ rec'.size = rec.size
             /\ downloaded_bytes' = downloaded_bytes
             /\ rec'.warnings = rec.warnings /\ rec'.info = rec.info ]_vars

\* what does hold: while the data of a download is kept, or the getter is
\* get_content and the text is kept, a getter changes nothing but the soup
\* and the text it makes of the data
MemoizedWhileKept ==
    [][ (op' \in Getters
         /\ (rec.data # None \/ (op' = "get_content" /\ rec.text # None)))
          => /\ raised' = None /\ downloaded_bytes' = downloaded_bytes
             /\ [rec' EXCEPT !.soup = None, !.text = None]
                 = [rec EXCEPT !.soup = None, !.text = None] ]_vars

\* one byte was downloaded and counted, set_result freed it, and
\* get_raw_content then read the connection again: the size is now 0, the
\* data is empty and the record holds a zero-size warning
C26_Redownloaded ==
    /\ op = "get_raw_content" /\ raised = None
    /\ downloaded_bytes = 1 /\ rec.size = 0 /\ rec.data = Some(0)
    /\ rec.text = Some(1)
    /\ rec.warnings = << <<WARN_URL_CONTENT_SIZE_ZERO, MsgSizeZero>> >>

----------------------------------------------------------------------------
(* The recursion gate and the content check, checked under SpecRecursion *)

\* what the hooks of the gate give
HookResults ==
    {Hooks(parseable, robots, None) : parseable \in BOOLEAN, robots \in BOOLEAN}
    \cup {Hooks(TRUE, TRUE, Some(FaultTimeout))}

\* the faults a content plugin raises
PluginFaults == {None, Some(FaultRefused), Some(FaultBare)}

\* the gate under every recursion cap and parse cap, with the
\* could-not-get-content warning ignored or not
InitRecursion ==
    /\ InitRecord
    /\ \E recursionlevel \in {-1, 0, 1}, maxfilesizeparse \in {1, ReadChunkBytes + 1},
          ignorewarnings \in SUBSET {WARN_URL_ERROR_GETTING_CONTENT} :
         config = [Config(<<>>, <<>>, TRUE, <<>>, ignorewarnings)
                     EXCEPT !.recursionlevel = recursionlevel,
                            !.maxfilesizeparse = maxfilesizeparse]

NextRecursion ==
    \/ \E recursion_level \in Levels, extern \in {None, <<0, 0>>} :
         Construct(Some(RawRef("http://A/", FALSE)), None, recursion_level, extern,
                   PatternResult(None, FALSE))
    \/ \E stream \in {<<1>>, <<ReadChunkBytes, 1>>, <<ReadChunkBytes, ReadChunkBytes>>} :
         LocalCheck(Some(stream), None)
    \/ LocalCheck(None, Some(FaultRefused))
    \/ \E reads \in BOOLEAN, plugin_fault \in PluginFaults,
          hooks \in HookResults :
         CheckContent(reads, plugin_fault, hooks)
    \/ \E hooks \in HookResults : AllowsRecursion(hooks)

SpecRecursion == InitRecursion /\ [][NextRecursion]_vars

\* the conditions of the gate that are read off the record and the
\* configuration
GateOpen(self, cfg) ==
    /\ self.valid
    /\ self.size <= cfg.maxfilesizedownload
    /\ cfg.recursionlevel < 0 \/ self.recursion_level < cfg.recursionlevel
    /\ ~Truthy(self.extern[1])
    /\ self.size <= cfg.maxfilesizeparse

\* C14: allows_recursion returns true only if the record is valid, its size is
\* within the download cap, the recursion cap is negative or above the
\* record's level, the record is not extern, its size is within the parse cap,
\* its content is parseable and the robots check permits; check_content
\* returns true only under the same conditions, so a record whose size is
\* above the parse cap gets false from both.
C14_RecursionGate ==
    [][ /\ \A hooks \in HookResults :
             (op' = "allows_recursion" /\ returned' = Some(TRUE) /\ AllowsRecursion(hooks))
               => GateOpen(rec, config) /\ hooks.parseable /\ hooks.robots
        /\ \A reads \in BOOLEAN, plugin_fault \in PluginFaults,
              hooks \in HookResults :
             (op' = "check_content" /\ returned' = Some(TRUE)
              /\ CheckContent(reads, plugin_fault, hooks))
               => GateOpen(rec', config) /\ hooks.parseable /\ hooks.robots
        /\ (op' \in {"allows_recursion", "check_content"} /\ raised' = None
            /\ rec'.size > config.maxfilesizeparse)
             => returned' = Some(FALSE) ]_vars

\* check_content has returned false, without any fault, on a valid intern
\* record below the recursion cap whose content is within the download cap
\* and above the parse cap
C14_Witness ==
    /\ op = "check_content" /\ returned = Some(FALSE)
    /\ rec.valid /\ ~Truthy(rec.extern[1])
    /\ config.recursionlevel < 0
    /\ rec.size <= config.maxfilesizedownload
    /\ rec.size > config.maxfilesizeparse
    /\ rec.warnings = <<>> /\ rec.info = <<>>

\* the could-not-get-content warning of a fault
ContentWarning(fault) ==
    <<WARN_URL_ERROR_GETTING_CONTENT, <<"could not get content: ">> \o ExceptionMessage(fault)>>

\* a check_content step with these inputs in which this fault is raised: by a
\* content plugin, by the download of a content plugin that hits the size
\* limit, or by a hook of the gate
FaultInCheckContent(reads, plugin_fault, hooks, fault) ==
    /\ op' = "check_content"
    /\ rec.valid /\ rec.size <= config.maxfilesizedownload
    /\ \/ ~reads /\ plugin_fault = Some(fault)
       \/ /\ reads /\ fault = FaultTooLarge
          /\ rec.text = None /\ rec.data = None /\ rec.url_connection # None
          /\ \E k \in 1..Len(Get(rec.url_connection)) :
               FirstOver(Get(rec.url_connection), config.maxfilesizedownload, k)
       \/ /\ ~reads /\ plugin_fault = None /\ hooks.fault = Some(fault)
          /\ GateOpen(rec, config)
    /\ CheckContent(reads, plugin_fault, hooks)

\* what C15 says of a caught fault but the warning: check_content returns
\* false and the result of the record is what it was
CaughtQuietly ==
    /\ raised' = None /\ returned' = Some(FALSE)
    /\ rec'.valid = rec.valid /\ rec'.result = rec.result
    /\ rec'.has_result = rec.has_result

\* the faults of the model that were made with arguments
Faults == {FaultRefused, FaultTimeout, FaultTooLarge}

\* an OSError() made without arguments, raised by a content plugin, has left
\* check_content as an IndexError
C15_Escaped ==
    op = "check_content" /\ raised = Some("IndexError") /\ returned = None

\* C15, its first part: a fault of the handled set raised in check_content is
\* caught, check_content returns false and the result of the record is what
\* it was.
C15_FaultCaught ==
    [][ \A reads \in BOOLEAN, plugin_fault \in PluginFaults,
           hooks \in HookResults, fault \in Faults \cup {FaultBare} :
          FaultInCheckContent(reads, plugin_fault, hooks, fault) => CaughtQuietly ]_vars

\* What the code does for a fault made with arguments: the same when the
\* could-not-get-content tag is not in ignorewarnings; when it is, the warning
\* list is left as it was and the message is in the info list exactly once.
ContentFaultRecorded ==
    [][ \A reads \in BOOLEAN, plugin_fault \in PluginFaults,
           hooks \in HookResults, fault \in Faults :
          FaultInCheckContent(reads, plugin_fault, hooks, fault)
            => /\ CaughtQuietly
               /\ IF WARN_URL_ERROR_GETTING_CONTENT \in config.ignorewarnings
                  THEN /\ rec'.warnings = rec.warnings
                       /\ Count(ContentWarning(fault)[2], rec'.info) = 1
                  ELSE /\ Count(ContentWarning(fault), rec'.warnings) = 1
                       /\ rec'.info = rec.info ]_vars

\* check_content has caught the size fault of a download and, in another
\* call, the fault of a plugin: the record is valid, without a result, and
\* holds one warning for each
ContentFaultsRecorded ==
    /\ op = "check_content" /\ raised = None /\ returned = Some(FALSE)
    /\ rec.valid /\ ~rec.has_result
    /\ rec.warnings = <<ContentWarning(FaultTooLarge), ContentWarning(FaultRefused)>>

----------------------------------------------------------------------------
(* The fault handlers, checked under SpecFault *)

\* the faults check_connection and the connection plugins raise
ConnFaults ==
    {FaultRefused, FaultUnknownHost, FaultTimeout, FaultUnicode, FaultBadDescriptor,
     FaultInterrupted, FaultLong, FaultBare, FaultBareTimeout, FaultBareChecker}

\* an ignore rule that matches the message of every fault of the exact class
\* OSError at http://a/
IgnoreOSErrors == IgnoreRule({"http://a/", "http://a/#f"}, MsgPattern("OSError", FALSE))

\* the handlers with and without an ignore rule
InitFault ==
    /\ InitRecord
    /\ \E ignoreerrors \in {<<>>, <<IgnoreOSErrors>>} :
         config = Config(<<>>, <<>>, TRUE, ignoreerrors, {})

NextFault ==
    \/ \E body \in {"http://A/", "http://b/"} :
         Construct(Some(RawRef(body, FALSE)), None, 1, None, PatternResult(None, FALSE))
    \/ \E opened \in {None, Some(<<1>>)}, fault \in ConnFaults :
         LocalCheck(opened, Some(fault))
    \/ \E opened \in {None, Some(<<1>>)}, fault \in ConnFaults :
         Check(opened, Some(fault))
    \/ \E fault \in ConnFaults : HandleException(fault)

SpecFault == InitFault /\ [][NextFault]_vars

\* C16: a fault of the handled set raised in the try block of local_check
\* never leaves local_check; afterwards the record has a result, and it is
\* invalid unless an ignore rule matched.
C16_ConnectionFaultCaught ==
    [][ \A opened \in {None, Some(<<1>>)}, fault \in ConnFaults :
          (op' = "local_check" /\ LocalCheck(opened, Some(fault)))
            => /\ raised' = None
               /\ rec'.has_result
               /\ rec'.valid => Len(rec'.result) > 0 /\ rec'.result[1] = IgnoredPrefix
      ]_vars

\* what the code does for a fault made with arguments: it is recorded as the
\* result, its message translated
ConnectionFaultRecorded ==
    [][ \A opened \in {None, Some(<<1>>)}, fault \in ConnFaults :
          (op' = "local_check" /\ fault.args # <<>> /\ LocalCheck(opened, Some(fault)))
            => /\ raised' = None
               /\ rec'.has_result
               /\ StripIgnored(rec'.result) =
                    (IF fault = FaultUnknownHost THEN <<"Hostname not found">>
                     ELSE IF fault = FaultUnicode
                     THEN <<"Bad hostname: ">> \o ExceptionMessage(fault)
                     ELSE ExceptionMessage(fault))
               /\ rec'.valid <=> rec'.result # StripIgnored(rec'.result) ]_vars

\* socket.timeout() made without arguments has left local_check as an
\* IndexError, and the record has no result
C16_Escaped ==
    /\ op = "local_check" /\ raised = Some("IndexError")
    /\ ~rec.has_result /\ ~rec.caching

\* the fault carries no detail: its text is empty
NoDetail(fault) == fault.detail = ""

\* the faults C18 has clear the flag
ClearsCaching(fault) ==
    \/ fault.etype \in ExcNoCacheList
    \/ IsSocketError(fault) /\ fault.args # <<>> /\ fault.args[1] = EBADF
    \/ NoDetail(fault)

\* the message C18 has handle_exception return
KindAndDetail(fault) ==
    limit(IF NoDetail(fault) THEN <<fault.etype>> ELSE <<fault.etype, ": ", fault.detail>>)

\* a step that is a handle_exception call for this fault
HandlesException(fault) == op' = "handle_exception" /\ HandleException(fault)

\* C18: handle_exception clears the caching flag exactly for a fault whose
\* class is in the no-cache set, a socket error with the bad-descriptor code or
\* a fault without detail, and leaves it otherwise; no operation on a
\* constructed record sets the flag; the message returned is the kind and the
\* detail, or the kind alone without detail, in at most 240 characters.
C18_CachingCleared ==
    [][ /\ \A fault \in ConnFaults :
             HandlesException(fault)
               => /\ raised' = None
                  /\ rec'.caching = (rec.caching /\ ~ClearsCaching(fault))
                  /\ returned' = Some(KindAndDetail(fault))
                  /\ MsgLen(KindAndDetail(fault)) <= ErrMsgLimit
        /\ (Alive /\ ~rec.caching) => ~rec'.caching ]_vars

\* what the code does for a fault made with arguments: C18 holds of it
HandledWithDetail ==
    [][ /\ \A fault \in ConnFaults :
             (fault.args # <<>> /\ HandlesException(fault))
               => /\ raised' = None
                  /\ rec'.caching = (rec.caching /\ ~ClearsCaching(fault))
                  /\ returned' = Some(KindAndDetail(fault))
                  /\ MsgLen(KindAndDetail(fault)) <= ErrMsgLimit
        /\ (Alive /\ ~rec.caching) => ~rec'.caching ]_vars

\* handle_exception has handled LinkCheckerError() made without arguments:
\* the flag is set and the message ends with the separator
C18_BareKept ==
    /\ op = "handle_exception" /\ raised = None /\ rec.caching
    /\ returned = Some(<<"LinkCheckerError", ": ", "">>)

\* handle_exception has cleared the flag for a bad descriptor and has cut the
\* long message
HandledWitness ==
    /\ op = "handle_exception" /\ ~rec.caching
    /\ returned = Some(<<"OSError", ": ", LongDetailCut>>)

\* C19: an interrupted system call raised while check() connects or reads
\* leaves check() as KeyboardInterrupt, and the result of the record is what
\* it was.
C19_InterruptPropagates ==
    [][ \A opened \in {None, Some(<<1>>)} :
          (op' = "check" /\ Check(opened, Some(FaultInterrupted)))
            => /\ raised' = Some("KeyboardInterrupt")
               /\ rec'.has_result = rec.has_result
               /\ rec'.result = rec.result /\ rec'.valid = rec.valid ]_vars

\* check() has returned with the interrupt recorded as the invalid result of
\* the record
C19_Absorbed ==
    /\ op = "check" /\ raised = None
    /\ rec.has_result /\ ~rec.valid
    /\ rec.result = ExceptionMessage(FaultInterrupted)

----------------------------------------------------------------------------
(* The syntax check of the constructor, checked under SpecSyntax *)

\* an ignore rule for the syntax fault of the URL without host
IgnoreNoHost == IgnoreRule({UrlNoHost}, MsgPattern("URL has empty hostname", FALSE))

InitSyntax ==
    /\ InitRecord
    /\ \E ignoreerrors \in {<<>>, <<IgnoreNoHost>>} :
         config = Config(<<>>, <<>>, TRUE, ignoreerrors, {})

\* the references records are constructed for: one that builds, and one for
\* each syntax fault
SyntaxRefs ==
    {Some(RawRef(body, FALSE)) : body \in {"http://A/", RefBadDomain, UrlBadPort, UrlNoHost}}

NextSyntax ==
    \/ \E raw \in SyntaxRefs, recursion_level \in Levels, extern \in {None, <<1, 0>>} :
         Construct(raw, None, recursion_level, extern, PatternResult(None, FALSE))
    \/ \E opened \in {None, Some(<<1>>)},
          fault \in {None, Some(FaultUnknownHost), Some(FaultRefused)} :
         Check(opened, fault)
    \/ GetRawContent
    \/ CloseConnection

SpecSyntax == InitSyntax /\ [][NextSyntax]_vars

\* the record holds the result of a syntax fault of build_url
SyntaxFaulted(self) ==
    /\ self.has_result
    /\ StripIgnored(self.result) \in {MsgBadDomain, MsgBadPort, MsgNoHost}

\* C17: a record whose construction ended with a syntax fault of build_url
\* has a result with the message of the fault, invalid unless an ignore rule
\* matched, and no cache key; in no later step is a connection opened for it
\* or its result changed.
C17_SyntaxFaultTerminal ==
    [][ /\ (op' = "__init__" /\ pc' = "live" /\ SyntaxFaulted(rec'))
             => /\ rec'.cache_url = None
                /\ rec'.valid => rec'.result # StripIgnored(rec'.result)
        /\ (Alive /\ SyntaxFaulted(rec))
             => /\ rec'.url_connection = None
                /\ rec'.result = rec.result /\ rec'.valid = rec.valid ]_vars

\* what does hold of the constructor
SyntaxFaultRecorded ==
    [][ (op' = "__init__" /\ pc' = "live" /\ SyntaxFaulted(rec'))
          => /\ rec'.cache_url = None /\ rec'.url_connection = None
             /\ rec'.valid <=> rec'.result # StripIgnored(rec'.result) ]_vars

\* check() has opened a connection for the record of the URL without host
C17_Connected ==
    /\ op = "check" /\ raised = None
    /\ rec.url = Some(UrlNoHost) /\ rec.cache_url = None
    /\ rec.url_connection # None /\ SyntaxFaulted(rec)

\* check() has put a connection fault in the place of the syntax fault
C17_Overwritten ==
    /\ op = "check" /\ raised = None
    /\ rec.url = Some(UrlNoHost) /\ rec.cache_url = None
    /\ rec.result = ExceptionMessage(FaultRefused)

----------------------------------------------------------------------------
(* The seeding of the intern pattern list by a pool of workers, checked under
   SpecSeed. A worker constructs one record at a time; the steps of __init__
   that touch the shared list are steps of their own, as nothing in the code
   makes them one. *)

\* the workers of the pool
NumWorkers == 2
Workers == 1..NumWorkers

\* the URLs the workers construct records for
SeedUrls == {"http://a/", "http://b/"}

\* what get_intern_pattern of a scheme class yields for a URL: a pattern for
\* the URLs of its host
SeedPattern(url) == IF url = "http://b/" THEN {"http://b/"} ELSE {"http://a/", "http://a/#f"}

\* a worker's record: where __init__ is, and the attributes it has set; i is
\* the position of the loop of line 712 in the intern pattern list
Worker(at, url, recursion_level, extern, i) ==
    [at |-> at, url |-> url, recursion_level |-> recursion_level, extern |-> extern,
     i |-> i]

IdleWorker == Worker("idle", None, 0, None, 1)

\* the entries appended and about to be appended
Pending == Cardinality({w \in Workers : workers[w].at = "seed"})

\* __init__ up to line 157: reset, init and check_syntax have run for a URL
\* that builds
BeginConstruct(w, url, recursion_level) ==
    /\ workers[w].at = "idle"
    /\ recursion_level = 0 => Len(config.internlinks) + Pending < MaxInternLinks
    /\ workers' = [workers EXCEPT ![w] =
                     Worker(IF recursion_level = 0 THEN "seed" ELSE "scan",
                            Some(url), recursion_level, None, 1)]
    /\ UNCHANGED <<rec, config, downloaded_bytes, pc, op, raised, logged, returned, wire,
                 urlqueue>>

\* lines 158-159 with add_intern_pattern, lines 849-855: the append
SeedAppend(w) ==
    /\ workers[w].at = "seed"
    /\ config' = AppendInternPattern(
                    config, PatternResult(Some(SeedPattern(Get(workers[w].url))), FALSE))
    /\ workers' = [workers EXCEPT ![w].at = "scan"]
    /\ UNCHANGED <<rec, downloaded_bytes, pc, op, raised, logged, returned, wire,
                 urlqueue>>

\* line 160, set_extern: one turn of the loop of lines 712-717 over the intern
\* pattern list as it is now, or lines 718-721 when the list is exhausted (the
\* extern pattern list is empty)
ScanStep(w) ==
    /\ workers[w].at = "scan"
    /\ LET self == workers[w]
       IN  workers' = [workers EXCEPT ![w] =
             IF self.i > Len(config.internlinks)
             THEN [self EXCEPT !.at = "done",
                               !.extern = IF config.checkextern THEN <<1, 0>> ELSE <<1, 1>>]
             ELSE IF EntryMatches(config.internlinks[self.i], Get(self.url))
             THEN [self EXCEPT !.at = "done", !.extern = <<0, 0>>]
             ELSE [self EXCEPT !.i = self.i + 1]]
    /\ UNCHANGED <<rec, config, downloaded_bytes, pc, op, raised, logged, returned, wire,
                 urlqueue>>

\* the worker hands the record on and is free for the next
Discard(w) ==
    /\ workers[w].at = "done"
    /\ workers' = [workers EXCEPT ![w] = IdleWorker]
    /\ UNCHANGED <<rec, config, downloaded_bytes, pc, op, raised, logged, returned, wire,
                 urlqueue>>

InitSeed ==
    /\ rec = reset /\ downloaded_bytes = 0 /\ pc = "new" /\ op = "none"
    /\ raised = None /\ logged = {} /\ returned = None
    /\ workers = [w \in Workers |-> IdleWorker]
    /\ wire = None /\ urlqueue = <<>>
    /\ \E checkextern \in BOOLEAN : config = Config(<<>>, <<>>, checkextern, <<>>, {})

NextSeed ==
    \/ \E w \in Workers, url \in SeedUrls, recursion_level \in Levels :
         BeginConstruct(w, url, recursion_level)
    \/ \E w \in Workers : SeedAppend(w)
    \/ \E w \in Workers : ScanStep(w)
    \/ \E w \in Workers : Discard(w)

SpecSeed == InitSeed /\ [][NextSeed]_vars

\* a worker is in the loop of set_extern: it has read an entry of the list and
\* not left the loop
MidScan(w) == workers[w].at = "scan" /\ workers[w].i > 1

\* C20: the intern pattern list holds the pattern of each seed at most once,
\* whatever records the workers construct, no entry is appended while another
\* worker is in the loop over the list, and a record of depth > 0 appends
\* nothing.
C20_SeedAppendedOnce ==
    [][ /\ \A url \in SeedUrls :
             Count(get_link_pat(SeedPattern(url)), config'.internlinks) <= 1
        /\ config'.internlinks # config.internlinks
             => \A w \in Workers : ~MidScan(w)
        /\ \A w \in Workers :
             (workers[w].recursion_level > 0 /\ workers'[w] # workers[w])
               => config' = config ]_vars

\* the same seed has been constructed twice at depth 0 and its pattern is in
\* the list twice
C20_Twice ==
    config.internlinks = <<get_link_pat(SeedPattern("http://a/")),
                           get_link_pat(SeedPattern("http://a/"))>>

\* an entry has been appended while another worker was in the loop over the
\* list, and that worker has classified its URL by the new entry
C20_ScanDuringAppend ==
    \E w \in Workers :
      /\ workers[w].at = "done" /\ workers[w].recursion_level = 1
      /\ workers[w].url = Some("http://b/") /\ workers[w].extern = <<0, 0>>
      /\ workers[w].i = 2
      /\ config.internlinks = <<get_link_pat(SeedPattern("http://a/")),
                                get_link_pat(SeedPattern("http://b/"))>>

----------------------------------------------------------------------------
(* The constructor, checked under SpecBuild *)

\* the texts of the raw references: empty, to be normalized, with a fragment,
\* of another host, long, of the greatest length allowed, a long data URL, and
\* one for each syntax fault
BuildBodies ==
    {"", "http://A/", "http://a/#f", "http://b/", UrlLong, UrlEdge, UrlData,
     RefBadDomain, UrlBadPort, UrlLongBadPort}

\* the raw references records are constructed for, with and without
\* whitespace around them
BuildRefs == {Some(RawRef(body, ws)) : body \in BuildBodies, ws \in BOOLEAN}

\* an ignore rule for the syntax faults at the URLs of host a
IgnoreSyntax == IgnoreRule({"http://a/", UrlBadPort}, MsgPattern("URL host has invalid port", FALSE))

\* a strict extern pattern for the URLs of host a
StrictHostA == LinkEntry({"http://a/", "http://a/#f"}, FALSE, 1)

\* the constructor under every choice of the anchor plugin, of the ignored
\* warnings, of an ignore rule, of a strict extern pattern and of checkextern
InitBuild ==
    /\ InitRecord
    /\ \E enabledplugins \in SUBSET {"AnchorCheck"},
          ignorewarnings \in SUBSET {WARN_URL_WHITESPACE, WARN_URL_TOO_LONG},
          ignoreerrors \in {<<>>, <<IgnoreSyntax>>},
          externlinks \in {<<>>, <<StrictHostA>>},
          checkextern \in BOOLEAN :
         config = [Config(externlinks, <<>>, checkextern, ignoreerrors, ignorewarnings)
                     EXCEPT !.enabledplugins = enabledplugins]

\* the parent URLs of the records
BuildParents == {None, Some("http://a/#f")}

NextBuild ==
    \/ \E raw \in BuildRefs, parent_url \in BuildParents, recursion_level \in Levels,
          extern \in ExternArgs :
         Construct(raw, parent_url, recursion_level, extern, PatternResult(None, FALSE))
    \/ \E url \in {Some("http://a/"), Some("http://b/")} : SetExtern(url)

SpecBuild == InitBuild /\ [][NextBuild]_vars

\* a step that is the construction of a record with these arguments
Builds(raw, parent_url) ==
    /\ pc = "new" /\ pc' = "live"
    /\ \E recursion_level \in Levels, extern \in ExternArgs :
         Construct(raw, parent_url, recursion_level, extern, PatternResult(None, FALSE))

\* the messages of the syntax faults
SyntaxMsgs == {MsgEmpty, MsgBadDomain, MsgBadPort, MsgNoHost}

\* the syntax check of the record has succeeded: build_url has assigned the
\* URL and no syntax fault is its result
SyntaxOk(self) == self.url # None /\ StripIgnored(self.result) \notin SyntaxMsgs

\* C21: after a construction whose syntax check succeeds the cache key is the
\* URL of the record with its fragment removed when AnchorCheck is not
\* enabled, so that http://a/#f and http://a/ have the key http://a/, and the
\* URL itself, fragment included, when AnchorCheck is enabled.
C21_CacheKey ==
    [][ (op' = "__init__" /\ pc' = "live" /\ SyntaxOk(rec'))
          => IF "AnchorCheck" \in config.enabledplugins
             THEN rec'.cache_url = rec'.url
             ELSE /\ rec'.cache_url # None
                  /\ Get(rec'.cache_url) # "http://a/#f"
                  /\ rec'.url \in {Some("http://a/#f"), Some("http://a/")}
                       => rec'.cache_url = Some("http://a/")
                  /\ rec'.url # Some("http://a/#f") => rec'.cache_url = rec'.url ]_vars

\* a record of http://a/#f has been constructed without AnchorCheck: its key
\* is http://a/
C21_Witness ==
    /\ op = "__init__" /\ pc = "live"
    /\ "AnchorCheck" \notin config.enabledplugins
    /\ rec.url = Some("http://a/#f") /\ rec.cache_url = Some("http://a/")

\* the same with AnchorCheck: its key is the URL
C21_WitnessAnchor ==
    /\ op = "__init__" /\ pc = "live"
    /\ "AnchorCheck" \in config.enabledplugins
    /\ rec.url = Some("http://a/#f") /\ rec.cache_url = Some("http://a/#f")

\* the number of warnings with this tag
TagCount(tag, warnings) == Cardinality({i \in 1..Len(warnings) : warnings[i][1] = tag})

\* the message of the whitespace warning for a raw reference
MsgWhitespace(raw) == <<"Leading or trailing whitespace in URL", raw.body>>

\* C22 as stated: under every configuration a record constructed for a
\* reference with whitespace around it holds exactly one whitespace warning and
\* the trimmed reference, and a record for a reference without holds none.
C22_Original ==
    [][ \A raw \in BuildRefs, parent_url \in BuildParents :
          (op' = "__init__" /\ Builds(raw, parent_url))
            => /\ rec'.base_url = Some(Get(raw).body)
               /\ TagCount(WARN_URL_WHITESPACE, rec'.warnings)
                    = (IF Get(raw).ws THEN 1 ELSE 0) ]_vars

\* C22 amended: the same when the whitespace tag is not in ignorewarnings;
\* when it is, the record holds no whitespace warning and the message of the
\* warning is in its info list exactly once.
C22_WhitespaceWarning ==
    [][ \A raw \in BuildRefs, parent_url \in BuildParents :
          (op' = "__init__" /\ Builds(raw, parent_url))
            => /\ rec'.base_url = Some(Get(raw).body)
               /\ IF Get(raw).ws /\ WARN_URL_WHITESPACE \notin config.ignorewarnings
                  THEN /\ TagCount(WARN_URL_WHITESPACE, rec'.warnings) = 1
                       /\ Count(<<WARN_URL_WHITESPACE, MsgWhitespace(Get(raw))>>,
                                rec'.warnings) = 1
                       /\ Count(MsgWhitespace(Get(raw)), rec'.info) = 0
                  ELSE /\ TagCount(WARN_URL_WHITESPACE, rec'.warnings) = 0
                       /\ Count(MsgWhitespace(Get(raw)), rec'.info)
                            = (IF Get(raw).ws THEN 1 ELSE 0) ]_vars

\* a record has been constructed for " http://A/ ": it holds the whitespace
\* warning and the URL built from the trimmed reference
C22_Witness ==
    /\ op = "__init__" /\ pc = "live"
    /\ rec.base_url = Some("http://A/") /\ rec.url = Some("http://a/")
    /\ rec.warnings = <<<<WARN_URL_WHITESPACE, MsgWhitespace(RawRef("http://A/", TRUE))>>>>

\* the same with the whitespace tag ignored: no warning, the message an info
C22_WitnessIgnored ==
    /\ op = "__init__" /\ pc = "live"
    /\ rec.base_url = Some("http://A/") /\ rec.warnings = <<>>
    /\ rec.info = <<MsgWhitespace(RawRef("http://A/", TRUE))>>

\* the message of the too-long warning
MsgTooLong == <<"URL length is longer than maximum">>

\* C23 as stated: a constructed record whose scheme is not data holds exactly
\* one too-long warning if its URL is longer than URL_MAX_LENGTH and none if
\* it is not; a record of scheme data holds none.
C23_Original ==
    [][ (op' = "__init__" /\ pc' = "live" /\ rec'.url # None)
          => TagCount(WARN_URL_TOO_LONG, rec'.warnings)
               = (IF rec'.scheme # Some("data") /\ UrlLen(Get(rec'.url)) > URL_MAX_LENGTH
                  THEN 1 ELSE 0) ]_vars

\* C23 amended: the same of a record whose syntax check has succeeded, when
\* the too-long tag is not in ignorewarnings; when it is, the record holds no
\* too-long warning and the message is in its info list exactly once; a
\* record whose syntax check has failed holds no too-long warning.
C23_TooLongWarning ==
    [][ (op' = "__init__" /\ pc' = "live" /\ rec'.url # None)
          => LET long == /\ SyntaxOk(rec') /\ rec'.scheme # Some("data")
                         /\ UrlLen(Get(rec'.url)) > URL_MAX_LENGTH
             IN  IF long /\ WARN_URL_TOO_LONG \notin config.ignorewarnings
                 THEN /\ TagCount(WARN_URL_TOO_LONG, rec'.warnings) = 1
                      /\ Count(MsgTooLong, rec'.info) = 0
                 ELSE /\ TagCount(WARN_URL_TOO_LONG, rec'.warnings) = 0
                      /\ Count(MsgTooLong, rec'.info) = (IF long THEN 1 ELSE 0) ]_vars

\* a record of a URL one character longer than URL_MAX_LENGTH holds the
\* too-long warning
C23_Witness ==
    /\ op = "__init__" /\ pc = "live"
    /\ rec.url = Some(UrlLong) /\ rec.warnings = <<<<WARN_URL_TOO_LONG, MsgTooLong>>>>

\* records of a URL of exactly URL_MAX_LENGTH characters, of a longer data
\* URL and of a longer URL with a syntax fault hold no warning
C23_WitnessEdge ==
    op = "__init__" /\ pc = "live" /\ rec.url = Some(UrlEdge) /\ rec.warnings = <<>>

C23_WitnessData ==
    /\ op = "__init__" /\ pc = "live" /\ rec.url = Some(UrlData)
    /\ rec.scheme = Some("data") /\ rec.warnings = <<>>

C23_WitnessFaulted ==
    /\ op = "__init__" /\ pc = "live" /\ rec.url = Some(UrlLongBadPort)
    /\ rec.result = MsgBadPort /\ rec.warnings = <<>>

----------------------------------------------------------------------------
(* The snapshot, checked under SpecWire *)

InitWire ==
    /\ InitRecord
    /\ \E ignorewarnings \in SUBSET {"tag-a"} :
         config = Config(<<>>, <<>>, TRUE, <<>>, ignorewarnings)

NextWire ==
    \/ Construct(Some(RawRef("http://A/", FALSE)), None, 1, None, PatternResult(None, FALSE))
    \/ \E stream \in {<<>>, <<1>>} : LocalCheck(Some(stream), None)
    \/ ToWire
    \/ \E s \in WarnMsgs : AddWarning(s, "tag-a")
    \/ \E s \in WarnMsgs : AddInfo(s)
    \/ \E valid \in BOOLEAN : SetResult(<<"err">>, valid, FALSE)
    \/ GetRawContent

SpecWire == InitWire /\ [][NextWire]_vars

\* C24: once to_wire has made a snapshot, no operation on the record changes
\* what any attribute of the snapshot reads.
C24_SnapshotFrozen ==
    [][ (wire # None /\ op' # "to_wire")
          => WireFields(Get(wire'), rec') = WireFields(Get(wire), rec) ]_vars

\* what does hold: every attribute of the snapshot but info reads what it
\* read when the snapshot was made, the warning list included
SnapshotFrozenButInfo ==
    [][ (wire # None /\ op' # "to_wire")
          => /\ wire' = wire
             /\ [WireFields(Get(wire'), rec') EXCEPT !.info = <<>>]
                 = [WireFields(Get(wire), rec) EXCEPT !.info = <<>>] ]_vars

\* add_info on the record has put an entry in the info list of a snapshot
\* made before, and add_warning an entry the snapshot does not have
C24_InfoChanged ==
    /\ wire # None /\ op = "add_info"
    /\ WireFields(Get(wire), rec).info = <<<<"first">>>>
    /\ Get(wire).warnings = <<>> /\ rec.warnings # <<>>

----------------------------------------------------------------------------
(* The content type test, checked under SpecParse *)

\* the content types a transport reports: none, two of the catalog, one not
MimeTypes == {"", "text/html", "application/pdf", "image/png"}

InitParse ==
    /\ InitRecord
    /\ \E recursionlevel \in {-1, 0, 1}, maxfilesizeparse \in {1, ReadChunkBytes + 1},
          ignorewarnings \in SUBSET {WARN_URL_CONTENT_TYPE_UNPARSEABLE} :
         config = [Config(<<>>, <<>>, TRUE, <<>>, ignorewarnings)
                     EXCEPT !.recursionlevel = recursionlevel,
                            !.maxfilesizeparse = maxfilesizeparse]

NextParse ==
    \/ \E recursion_level \in Levels, extern \in {<<0, 0>>, <<1, 0>>} :
         Construct(Some(RawRef("http://A/", FALSE)), None, recursion_level, extern,
                   PatternResult(None, FALSE))
    \/ \E stream \in {<<1>>, <<ReadChunkBytes, 1>>} : LocalCheck(Some(stream), None)
    \/ \E mime \in MimeTypes : SetContentType(mime)
    \/ \E valid \in BOOLEAN : SetResult(<<"err">>, valid, TRUE)
    \/ GetRawContent
    \/ IsContentTypeParseable
    \/ \E overridden \in BOOLEAN, robots \in BOOLEAN :
         AllowsRecursionParsing(overridden, robots)

SpecParse == InitParse /\ [][NextParse]_vars

\* the unparseable-content-type warning of the record's content type
WarnUnparseable(self) ==
    <<WARN_URL_CONTENT_TYPE_UNPARSEABLE, MsgUnparseable(self.content_type)>>

\* C25 as stated: is_content_type_parseable returns true iff the content type
\* is in the catalog, and when it returns false the record holds the
\* unparseable-content-type warning iff its level is 0.
C25_Original ==
    [][ op' = "is_content_type_parseable"
          => /\ returned' = Some(rec.content_type \in ContentMimetypes)
             /\ returned' = Some(FALSE)
                  => (InSeq(WarnUnparseable(rec), rec'.warnings)
                        <=> rec.recursion_level = 0) ]_vars

\* C25: is_content_type_parseable returns true iff the content type is in the
\* catalog. When it returns false at level 0 the record holds the
\* unparseable-content-type warning, or, if the tag is in ignorewarnings, its
\* message as an info and no warning; at any other level, and when it returns
\* true, the record is left as it was. allows_recursion changes the record
\* only by that warning or info, and only if the record is valid, within the
\* download and parse caps, below the recursion cap, not extern and at level 0.
C25_ContentTypeGate ==
    [][ /\ op' = "is_content_type_parseable"
            => /\ returned' = Some(rec.content_type \in ContentMimetypes)
               /\ rec' = IF returned' = Some(FALSE) /\ rec.recursion_level = 0
                         THEN add_warning(rec, config, MsgUnparseable(rec.content_type),
                                          WARN_URL_CONTENT_TYPE_UNPARSEABLE)
                         ELSE rec
               /\ (returned' = Some(FALSE) /\ rec.recursion_level = 0)
                    => IF WARN_URL_CONTENT_TYPE_UNPARSEABLE \in config.ignorewarnings
                       THEN /\ InSeq(MsgUnparseable(rec.content_type), rec'.info)
                            /\ rec'.warnings = rec.warnings
                       ELSE /\ InSeq(WarnUnparseable(rec), rec'.warnings)
                            /\ rec'.info = rec.info
        /\ (op' = "allows_recursion" /\ rec' # rec)
            => /\ GateOpen(rec, config) /\ rec.recursion_level = 0
               /\ rec.content_type \notin ContentMimetypes
               /\ returned' = Some(FALSE)
               /\ rec' = add_warning(rec, config, MsgUnparseable(rec.content_type),
                                     WARN_URL_CONTENT_TYPE_UNPARSEABLE) ]_vars

\* allows_recursion has put the warning on a valid intern record of level 0
\* whose downloaded content is within the caps
C25_Witness ==
    /\ op = "allows_recursion" /\ returned = Some(FALSE)
    /\ rec.valid /\ rec.recursion_level = 0 /\ rec.size = 1
    /\ rec.content_type = "image/png"
    /\ rec.warnings = <<WarnUnparseable(rec)>> /\ rec.info = <<>>

\* is_content_type_parseable has returned false at level 0 with the tag
\* ignored: an info and no warning
C25_WitnessIgnored ==
    /\ op = "is_content_type_parseable" /\ returned = Some(FALSE)
    /\ rec.recursion_level = 0 /\ rec.content_type = ""
    /\ rec.warnings = <<>> /\ rec.info = <<MsgUnparseable("")>>

\* is_content_type_parseable has returned false at level 1 and true for a
\* content type of the catalog, leaving no warning
C25_WitnessSilent ==
    /\ op = "is_content_type_parseable" /\ rec.warnings = <<>> /\ rec.info = <<>>
    /\ \/ returned = Some(FALSE) /\ rec.recursion_level = 1
       \/ returned = Some(TRUE) /\ rec.content_type = "application/pdf"

----------------------------------------------------------------------------
(* The constructor on references without a URL, checked under SpecBuild *)

\* C27: the construction of a record whose URL is never assigned (an empty
\* reference without parent, or a reference whose normalization fails)
\* completes without raising and leaves a terminal invalid result, whatever
\* the ignoreerrors configuration is.
C27_ConstructionCompletes ==
    [][ (pc = "new" /\ op' = "__init__" /\ rec'.url = None)
          => /\ raised' = None /\ pc' = "live"
             /\ rec'.has_result /\ ~rec'.valid ]_vars

\* what does hold: with no ignore rule configured such a construction
\* completes with an invalid result that is a syntax message
CompletesWithoutRules ==
    [][ (pc = "new" /\ op' = "__init__" /\ rec'.url = None
         /\ config.ignoreerrors = <<>>)
          => /\ raised' = None /\ pc' = "live"
             /\ rec'.has_result /\ ~rec'.valid
             /\ rec'.result \in {MsgEmpty, MsgBadDomain} ]_vars

\* with an ignore rule configured, the constructor has raised TypeError out of
\* set_result for an empty reference without parent
C27_Raised ==
    /\ op = "__init__" /\ raised = Some("TypeError") /\ pc = "dead"
    /\ config.ignoreerrors = <<IgnoreSyntax>>
    /\ rec.base_url = Some("") /\ rec.parent_url = None /\ rec.url = None
    /\ rec.result = MsgEmpty

\* the same for a reference whose normalization fails
C27_RaisedNorm ==
    /\ op = "__init__" /\ raised = Some("TypeError") /\ pc = "dead"
    /\ rec.base_url = Some(RefBadDomain) /\ rec.url = None
    /\ rec.result = MsgBadDomain

----------------------------------------------------------------------------
(* The filter of strict extern records, checked under SpecFilter *)

\* the raw references: empty, of host a, of host b, and two with a syntax fault
FilterRefs ==
    {Some(RawRef(body, FALSE)) : body \in {"", "http://A/", "http://b/", UrlBadPort,
                                            RefBadDomain}}

\* what get_intern_pattern gives for a record of level 0: None, or UnicodeError
FilterPatterns == {PatternResult(None, FALSE), PatternResult(None, TRUE)}

InitFilter ==
    /\ InitRecord
    /\ \E ignoreerrors \in {<<>>, <<IgnoreSyntax>>},
          externlinks \in {<<>>, <<StrictHostA>>},
          checkextern \in BOOLEAN, ignorewarnings \in SUBSET {"tag-a"} :
         config = Config(externlinks, <<>>, checkextern, ignoreerrors, ignorewarnings)

NextFilter ==
    \/ \E raw \in FilterRefs, parent_url \in BuildParents, recursion_level \in Levels,
          extern \in ExternArgs, pat \in FilterPatterns :
         Construct(raw, parent_url, recursion_level, extern, pat)
    \/ \E url \in {Some("http://a/"), Some("http://b/")} : SetExtern(url)
    \/ \E s \in WarnMsgs : AddWarning(s, "tag-a")

SpecFilter == InitFilter /\ [][NextFilter]_vars

\* the record as check_syntax leaves it, line 157
AfterSyntax(cfg, raw, parent_url, recursion_level, extern) ==
    check_syntax(init(reset, cfg, raw, parent_url, recursion_level, extern), cfg).self

\* the record as lines 157-159 leave it: after check_syntax and, at level 0,
\* add_intern_pattern
AfterSeeding(cfg, raw, parent_url, recursion_level, extern, pat) ==
    IF recursion_level = 0
    THEN add_intern_pattern(AfterSyntax(cfg, raw, parent_url, recursion_level, extern),
                            pat).self
    ELSE AfterSyntax(cfg, raw, parent_url, recursion_level, extern)

\* the record is extern and strict
StrictExtern(self) == Truthy(self.extern[1]) /\ Truthy(self.extern[2])

\* what the constructor has made of the record that earlier held: a strict
\* extern record has a result and the info entry, "filtered" and valid if
\* earlier held none and else the result of earlier; a record of another
\* scope has a result only if earlier has one
Filtered(earlier, self) ==
    IF StrictExtern(self)
    THEN /\ self.has_result /\ InSeq(InfoFiltered, self.info)
         /\ IF ~earlier.has_result
            THEN self.valid /\ self.result = MsgFiltered
            ELSE self.valid = earlier.valid /\ self.result = earlier.result
    ELSE /\ ~InSeq(InfoFiltered, self.info)
         /\ self.has_result => earlier.has_result
         /\ self.valid = earlier.valid /\ self.result = earlier.result

\* C28 as stated: after construction a strict extern record has a result and
\* the outside-the-domain-filter info, valid "filtered" if the syntax check
\* stored none and else the result of the syntax check; a record of another
\* scope has a result only if the syntax check stored one.
C28_Original ==
    [][ \A raw \in FilterRefs, parent_url \in BuildParents, recursion_level \in Levels,
           extern \in ExternArgs, pat \in FilterPatterns :
          (op' = "__init__" /\ pc' = "live"
           /\ Construct(raw, parent_url, recursion_level, extern, pat))
            => Filtered(AfterSyntax(config, raw, parent_url, recursion_level, extern),
                        rec') ]_vars

\* C28: after construction a strict extern record has a result and the
\* outside-the-domain-filter info: valid "filtered" if neither the syntax
\* check nor, at level 0, add_intern_pattern stored a result, and else the
\* result these left; a record of another scope has no such info, and a result
\* only if the syntax check or add_intern_pattern stored one.
C28_StrictExternFiltered ==
    [][ \A raw \in FilterRefs, parent_url \in BuildParents, recursion_level \in Levels,
           extern \in ExternArgs, pat \in FilterPatterns :
          (op' = "__init__" /\ pc' = "live"
           /\ Construct(raw, parent_url, recursion_level, extern, pat))
            => Filtered(AfterSeeding(config, raw, parent_url, recursion_level, extern, pat),
                        rec') ]_vars

\* a strict extern record with a sound URL has been constructed: valid,
\* "filtered", with the info entry
C28_Witness ==
    /\ op = "__init__" /\ pc = "live" /\ StrictExtern(rec)
    /\ rec.url = Some("http://a/") /\ config.externlinks = <<StrictHostA>>
    /\ rec.valid /\ rec.has_result /\ rec.result = MsgFiltered
    /\ rec.info = <<InfoFiltered>>

\* a strict extern record whose syntax check failed keeps the syntax result
C28_WitnessKept ==
    /\ op = "__init__" /\ pc = "live" /\ StrictExtern(rec)
    /\ ~rec.valid /\ rec.result = MsgBadPort /\ rec.info = <<InfoFiltered>>

\* a record of level 0 that is not strict extern and whose syntax check
\* succeeded has the result of add_intern_pattern
C28_WitnessSeeded ==
    /\ op = "__init__" /\ pc = "live" /\ ~StrictExtern(rec)
    /\ rec.recursion_level = 0 /\ rec.url = Some("http://b/")
    /\ rec.cache_url = Some("http://b/")
    /\ ~rec.valid /\ rec.result = MsgBadDomain

\* a record of another scope without result
C28_WitnessOther ==
    /\ op = "__init__" /\ pc = "live" /\ ~StrictExtern(rec)
    /\ ~rec.has_result /\ rec.valid /\ rec.info = <<>>

----------------------------------------------------------------------------
(* The children of a record, checked under SpecCrawl *)

\* the references found in a document and the explicit parents given
ChildRefs == {"http://a/", "http://b/"}
ParentArgs == {None, Some("http://p/")}

\* a crawl of the pages of host a under every recursion cap
InitCrawl ==
    /\ InitRecord
    /\ \E recursionlevel \in {-1, 0, 1} :
         config = [Config(<<>>, <<get_link_pat({"http://a/"})>>, TRUE, <<>>, {})
                     EXCEPT !.recursionlevel = recursionlevel]

NextCrawl ==
    \/ Construct(Some(RawRef("http://A/", FALSE)), None, 0, None, PatternResult(None, FALSE))
    \/ \E hooks \in HookResults : DriverRecursion(hooks)
    \/ \E valid \in BOOLEAN : SetResult(<<"err">>, valid, TRUE)
    \/ \E url \in ChildRefs, parent \in ParentArgs : AddUrl(url, parent)
    \/ TakeFromQueue

SpecCrawl == InitCrawl /\ [][NextCrawl]_vars

\* the record add_url has put in the queue
Enqueued == urlqueue'[Len(urlqueue')]

\* C29: every child add_url puts in the queue has the recursion level of the
\* record that found it plus one, and as parent URL the URL of that record
\* unless a parent was given, which it then has; so a child put in the queue
\* for a record for which allows_recursion has returned true is, under a cap
\* c >= 0, of a level that is at most c.
C29_ChildLevel ==
    [][ \A url \in ChildRefs, parent \in ParentArgs :
          (op' = "add_url" /\ raised' = None /\ AddUrl(url, parent))
            => /\ urlqueue' = Append(urlqueue, Enqueued)
               /\ Enqueued.recursion_level = rec.recursion_level + 1
               /\ Enqueued.parent_url = (IF parent = None THEN rec.url ELSE parent)
               /\ Enqueued.base_url = Some(url)
               /\ (pc = "parsing" /\ config.recursionlevel >= 0)
                    => Enqueued.recursion_level <= config.recursionlevel ]_vars

\* under the cap 1 a child of level 1 is in the queue for a record of level 0
\* that allows_recursion let through, with the URL of that record as parent
C29_Witness ==
    /\ op = "add_url" /\ pc = "parsing" /\ config.recursionlevel = 1
    /\ rec.recursion_level = 0 /\ rec.url = Some("http://a/")
    /\ urlqueue # <<>>
    /\ urlqueue[Len(urlqueue)].recursion_level = 1
    /\ urlqueue[Len(urlqueue)].parent_url = Some("http://a/")

\* a child with the parent that was given
C29_WitnessParent ==
    /\ op = "add_url" /\ pc = "parsing" /\ rec.url = Some("http://a/")
    /\ urlqueue # <<>>
    /\ urlqueue[Len(urlqueue)].parent_url = Some("http://p/")

\* under the cap 1 a child of level 1 came out of the queue and
\* allows_recursion has turned it down
C29_WitnessCapped ==
    /\ op = "allows_recursion" /\ returned = Some(FALSE) /\ pc = "checked"
    /\ config.recursionlevel = 1 /\ rec.recursion_level = 1
    /\ rec.valid /\ ~Truthy(rec.extern[1])

====
